---- MODULE Spec2Model ----
(***************************************************************************)
(* A model of lota: the tracker client (gh), the metadata codec, the task  *)
(* store built on issue labels and comments, and startup crash recovery.   *)
(*                                                                         *)
(* The variables fall into groups, one per component; every specification  *)
(* below runs one component and keeps the other groups at their initial    *)
(* values.                                                                 *)
(***************************************************************************)
EXTENDS Integers, Sequences, FiniteSets, TLC

VARIABLES
  \* ---- gh(): one tracker request with its retry loop ----
  ghPc,         \* "idle" | "loop" | "returned" | "thrown"
  ghAttempt,    \* the for-loop variable `attempt`
  ghFetches,    \* number of fetch() calls made by the request
  ghLastError,  \* `lastError`
  ghThrown,     \* the error gh threw, NoError while it has thrown none
  ghResps,      \* the tracker's responses to this request, in order
  ghReturned,   \* index in ghResps of the response whose body was returned, 0 if none
  \* ---- parseMetadata / parseBodyMeta applied to one body ----
  pmPc,         \* "input" | "done"
  pmBody,       \* the text handed to the parser
  pmType,       \* the metadata kind asked for
  pmResult,     \* what parseMetadata returned
  pmBodyMeta,   \* what parseBodyMeta returned
  \* ---- the tracker (issues) as the task store sees it ----
  issues,       \* issue number -> issue record
  lastOp,       \* the last task-store operation and its outcome
  \* ---- the runner: one daemon process ----
  currentTask,       \* id of `currentTask`, 0 for null
  currentProcess,    \* task id whose child `currentProcess` is, 0 for null
  processedTaskIds,  \* `processedTaskIds`
  exec,              \* task id -> the executeTask call in flight for it
  alive,             \* task ids whose subprocess was spawned and has not exited
  spawned,           \* task id -> subprocesses spawned for it by this process
  statusSent,        \* task id -> status updates sent for it by this process
  loop,              \* the main loop: asleep, fetching, or awaiting executeTask
  \* ---- runClaude and merge-back: agents, their clones, the remote ----
  remote,         \* change sets on the remote's default branch
  conflictLevel,  \* how the agents' two change sets conflict
  repos,          \* agent -> its run: workspace, worktree, task branch, position
  \* ---- the runner's message poll ----
  clock,                   \* the clock
  inbox,                 \* message id -> the message as the API holds it
  lastMessageTimestamp,  \* `lastMessageTimestamp`
  delivered,             \* message id -> calls of handleMessage in this lifetime
  everDelivered,         \* message ids handed to handleMessage in any lifetime
  mloop,                 \* pollForMessages: position, `since`, rest of the batch
  \* ---- the runner's main loop and its shutdown ----
  shuttingDown,          \* `shuttingDown`
  mainLoop,              \* main: position in the poll cycle, cycles started
  sub,                   \* `currentProcess` and the subprocesses spawned so far
  handler,               \* the shutdown handler: position, grace timer, signals seen
  \* ---- the tracker's clock ----
  age,                   \* issue number -> minutes since the tracker's updated_at
  \* ---- one shared workspace ----
  tree,                  \* its worktree slots, its task branches, the last call
  \* ---- the inter-cycle sleep ----
  nap,                   \* `sleepResolve`, the sleep main awaits, the timers pending
  \* ---- concurrent status updates of one issue ----
  swap                   \* the issue's labels and the updateStatus calls in flight

ghVars    == <<ghPc, ghAttempt, ghFetches, ghLastError, ghThrown, ghResps, ghReturned>>
codecVars == <<pmPc, pmBody, pmType, pmResult, pmBodyMeta>>
storeVars == <<issues, lastOp>>
runnerVars == <<currentTask, currentProcess, processedTaskIds, exec, alive,
                spawned, statusSent, loop>>
gitVars   == <<remote, conflictLevel, repos>>
msgVars   == <<clock, inbox, lastMessageTimestamp, delivered, everDelivered, mloop>>
sdVars    == <<shuttingDown, mainLoop, sub, handler>>
daemonVars == <<msgVars, sdVars, age, tree, nap, swap>>
vars      == <<ghVars, codecVars, storeVars, runnerVars, gitVars, daemonVars>>

(***************************************************************************)
(* gh: the retrying fetch wrapper                                          *)
(***************************************************************************)

MAX_RETRIES == 3

\* `status` of an error that carries none (a network error): undefined in
\* the code, which tests it for truthiness.
NoStatus == 0

\* A fetch() that rejects (network error) instead of resolving to a response.
NetErr == [kind |-> "network", status |-> NoStatus]

HttpStatuses == {200, 201, 301, 400, 401, 403, 404, 422, 429, 500, 503}

HttpResp(s) == [kind |-> "http", status |-> s]

Responses == {HttpResp(s) : s \in HttpStatuses} \cup {NetErr}

NoError == [kind |-> "none", status |-> NoStatus]

\* new Error(`GitHub request failed after ${MAX_RETRIES} retries`)
ExhaustedError == [kind |-> "exhausted", status |-> NoStatus]

\* Object.assign(new Error(...), { status: res.status })
HttpError(s) == [kind |-> "http", status |-> s]

\* res.ok
ResOk(s) == s >= 200 /\ s <= 299

\* res.status === 403 || res.status === 429
IsRateLimit(s) == s = 403 \/ s = 429

GhLoopCond_OffByOne(attempt) == attempt <= MAX_RETRIES

\* attempt < MAX_RETRIES
GhLoopCond(attempt) == attempt < MAX_RETRIES

GhRethrows_Never(e) == FALSE

GhRethrows_Always(e) == e.status # NoStatus

\* (e.status && e.status < 500): the catch block rethrows at once
GhRethrows(e) == e.status # NoStatus /\ e.status < 500

\* gh(path, opts) is called: lastError = null, attempt = 0.
GhCall ==
  /\ ghPc = "idle"
  /\ ghPc' = "loop"
  /\ ghAttempt' = 0
  /\ ghFetches' = 0
  /\ ghLastError' = NoError
  /\ ghThrown' = NoError
  /\ ghResps' = <<>>
  /\ ghReturned' = 0

\* One iteration of the for loop: a fetch and everything done with its
\* outcome r, up to the `continue`, the return or the throw.
GhIteration(r) ==
  /\ ghPc = "loop"
  /\ GhLoopCond(ghAttempt)
  /\ ghFetches' = ghFetches + 1
  /\ ghResps' = Append(ghResps, r)
  /\ IF r.kind = "network"
       THEN \* fetch rejected: caught, status undefined, no rethrow
            /\ ghLastError' = NetErr
            /\ IF GhRethrows(NetErr)
                 THEN ghPc' = "thrown" /\ ghThrown' = NetErr /\ ghAttempt' = ghAttempt
                 ELSE ghPc' = "loop" /\ ghThrown' = ghThrown /\ ghAttempt' = ghAttempt + 1
            /\ ghReturned' = ghReturned
       ELSE IF IsRateLimit(r.status)
       THEN \* backoff, then `continue`
            /\ ghLastError' = ghLastError
            /\ ghPc' = "loop"
            /\ ghThrown' = ghThrown
            /\ ghAttempt' = ghAttempt + 1
            /\ ghReturned' = ghReturned
       ELSE IF ~ResOk(r.status)
       THEN \* throw inside try: caught, lastError = e, rethrown when < 500
            /\ ghLastError' = HttpError(r.status)
            /\ IF GhRethrows(HttpError(r.status))
                 THEN ghPc' = "thrown" /\ ghThrown' = HttpError(r.status)
                      /\ ghAttempt' = ghAttempt
                 ELSE ghPc' = "loop" /\ ghThrown' = ghThrown
                      /\ ghAttempt' = ghAttempt + 1
            /\ ghReturned' = ghReturned
       ELSE \* return JSON.parse(text), or text
            /\ ghLastError' = ghLastError
            /\ ghPc' = "returned"
            /\ ghThrown' = ghThrown
            /\ ghAttempt' = ghAttempt
            /\ ghReturned' = ghFetches + 1

\* The loop condition fails: throw lastError || new Error(...).
GhExhausted ==
  /\ ghPc = "loop"
  /\ ~GhLoopCond(ghAttempt)
  /\ ghPc' = "thrown"
  /\ ghThrown' = IF ghLastError # NoError THEN ghLastError ELSE ExhaustedError
  /\ UNCHANGED <<ghAttempt, ghFetches, ghLastError, ghResps, ghReturned>>

\* The caller is done with the outcome; the next request may start.
GhDone ==
  /\ ghPc \in {"returned", "thrown"}
  /\ ghPc' = "idle"
  /\ ghAttempt' = 0
  /\ ghFetches' = 0
  /\ ghLastError' = NoError
  /\ ghThrown' = NoError
  /\ ghResps' = <<>>
  /\ ghReturned' = 0

GhFetch == \E r \in Responses : GhIteration(r)

GhOnly == UNCHANGED <<codecVars, storeVars, runnerVars, gitVars, daemonVars>>

NextGh ==
  \/ GhCall /\ GhOnly
  \/ GhFetch /\ GhOnly
  \/ GhExhausted /\ GhOnly
  \/ GhDone /\ GhOnly


(***************************************************************************)
(* Text.  A string is a sequence of lexemes: stretches of text that the    *)
(* metadata regular expressions and JSON.parse tell apart.                 *)
(*   w      text with no marker syntax in it                               *)
(*   open   "<!-- lota:v1:<type> {"  (ver = "v1")  or                      *)
(*          "<!-- lota:<type> {"     (ver = "legacy")                      *)
(*   close  "} -->"                                                        *)
(*   json   the members of a JSON object, complete: "{" json "}" parses    *)
(*          to the object v                                                *)
(*   frag   a piece of JSON text that is no complete member list           *)
(*   undef  the value undefined (never part of a real string)              *)
(***************************************************************************)

NoObj == [absent |-> TRUE]

Lex(t, a, b) == [t |-> t, a |-> a, b |-> b, v |-> NoObj]

W(n)           == Lex("w", n, "")
OpenLex(ver, type) == Lex("open", ver, type)
CloseLex       == Lex("close", "", "")
FragLex        == Lex("frag", "", "")
JsonLex(obj)   == [t |-> "json", a |-> "", b |-> "", v |-> obj]

\* The literal pieces of the templates ("## Plan\n", "\n\n", "- ", ...).
Lit == W("lit")

Undefined == <<Lex("undef", "", "")>>
UndefinedArr == <<Undefined>>

\* JavaScript truthiness of an optional string: neither undefined nor "".
Truthy(s) == s # Undefined /\ s # <<>>

META_VERSION == "v1"

\* {} : what JSON.parse("{}") returns, and parseBodyMeta's "nothing found".
EmptyObj == [empty |-> TRUE]

\* null : parseMetadata's "nothing found".
Null == [null |-> TRUE]

\* JSON.parse threw.
ParseThrew == [threw |-> TRUE]

\* JSON.parse("{" + inner + "}")
JsonParse(inner) ==
  IF inner = <<>> THEN EmptyObj
  ELSE IF Len(inner) = 1 /\ inner[1].t = "json" THEN inner[1].v
  ELSE ParseThrew

\* body.match(/<open>(\{.*?\}) -->/s) tried with the match starting at
\* lexeme i: the lazy .*? ends at the first "} -->" after i.
RECURSIVE LazyClose(_, _)
LazyClose(body, j) ==
  IF j > Len(body) THEN 0
  ELSE IF body[j].t = "close" THEN j
  ELSE LazyClose(body, j + 1)

NoMatch == [matched |-> FALSE, inner |-> <<>>]

\* The regular expression engine: start positions are tried left to right.
RECURSIVE RegexScan(_, _, _)
RegexScan(body, open, i) ==
  IF i > Len(body) THEN NoMatch
  ELSE IF body[i] = open /\ LazyClose(body, i + 1) # 0
    THEN [matched |-> TRUE, inner |-> SubSeq(body, i + 1, LazyClose(body, i + 1) - 1)]
    ELSE RegexScan(body, open, i + 1)

VersionedMatch(body, type) == RegexScan(body, OpenLex(META_VERSION, type), 1)
LegacyMatch(body, type)    == RegexScan(body, OpenLex("legacy", type), 1)

parseMetadata_NoFallThrough(body, type) ==
  LET vMatch == VersionedMatch(body, type)
      m      == LegacyMatch(body, type)
  IN IF vMatch.matched
       THEN IF JsonParse(vMatch.inner) # ParseThrew THEN JsonParse(vMatch.inner) ELSE Null
       ELSE IF ~m.matched THEN Null
       ELSE IF JsonParse(m.inner) # ParseThrew THEN JsonParse(m.inner) ELSE Null

\* parseMetadata(body, type)
parseMetadata(body, type) ==
  LET vMatch == VersionedMatch(body, type)
      m      == LegacyMatch(body, type)
  IN IF vMatch.matched /\ JsonParse(vMatch.inner) # ParseThrew
       THEN JsonParse(vMatch.inner)               \* try { return JSON.parse(..) }
       ELSE IF ~m.matched THEN Null
       ELSE IF JsonParse(m.inner) # ParseThrew THEN JsonParse(m.inner)
       ELSE Null                                  \* catch { return null }

parseBodyMeta_Throws(body) ==
  LET vMatch == VersionedMatch(body, "meta")
      m      == LegacyMatch(body, "meta")
  IN IF vMatch.matched THEN JsonParse(vMatch.inner)
     ELSE IF ~m.matched THEN EmptyObj
     ELSE JsonParse(m.inner)

\* parseBodyMeta(body)
parseBodyMeta(body) ==
  LET vMatch == VersionedMatch(body, "meta")
      m      == LegacyMatch(body, "meta")
  IN IF vMatch.matched /\ JsonParse(vMatch.inner) # ParseThrew
       THEN JsonParse(vMatch.inner)
       ELSE IF ~m.matched THEN EmptyObj
       ELSE IF JsonParse(m.inner) # ParseThrew THEN JsonParse(m.inner)
       ELSE EmptyObj

\* ---- the codec applied to one body ----

MaxBodyLen == 4

PlanObjA == [goals |-> <<<<W("a")>>>>, affected_files |-> <<>>,
             effort |-> <<W("medium")>>, notes |-> Undefined]
MetaObjA == [workspace |-> <<W("ws")>>]

MetaTypes == {"plan", "report", "meta"}

CodecAlphabet ==
  { W("a"), CloseLex, FragLex, JsonLex(PlanObjA), JsonLex(MetaObjA),
    OpenLex(META_VERSION, "plan"), OpenLex("legacy", "plan"),
    OpenLex(META_VERSION, "meta"), OpenLex("legacy", "meta") }

CodecBodies == UNION { [1..n -> CodecAlphabet] : n \in 0..MaxBodyLen }

\* parseMetadata(pmBody, pmType) and parseBodyMeta(pmBody) are called.
PmApply ==
  /\ pmPc = "input"
  /\ pmPc' = "done"
  /\ pmResult' = parseMetadata(pmBody, pmType)
  /\ pmBodyMeta' = parseBodyMeta(pmBody)
  /\ UNCHANGED <<pmBody, pmType>>

CodecOnly == UNCHANGED <<ghVars, storeVars, runnerVars, gitVars, daemonVars>>

NextCodec == PmApply /\ CodecOnly


(***************************************************************************)
(* The tracker: issues with labels, an open/closed state, a body and       *)
(* comments.  A label is its prefix p and the rest v ("status:" +          *)
(* "assigned"); the type label is "task" with nothing after it.            *)
(***************************************************************************)

LABEL_TYPE     == [p |-> "task", v |-> ""]
LABEL_AGENT    == "agent:"
LABEL_STATUS   == "status:"
LABEL_PRIORITY == "priority:"

AgentLabel(a)    == [p |-> LABEL_AGENT, v |-> a]
StatusLabel(s)   == [p |-> LABEL_STATUS, v |-> s]
PriorityLabel(x) == [p |-> LABEL_PRIORITY, v |-> x]

\* l.name.startsWith(prefix)
StartsWith(l, prefix) == l.p = prefix

\* process.env.AGENT_NAME
AGENT_NAME == "me"
OtherAgent == "other"

Statuses == {"assigned", "in-progress", "completed", "failed"}

NoIssue == [exists |-> FALSE, open |-> FALSE, labels |-> <<>>,
            body |-> <<>>, comments |-> <<>>]

\* Property read on a JSON object: undefined when the key is missing.
Get(obj, key) == IF key \in DOMAIN obj THEN obj[key] ELSE Undefined

SwapKept_AddOnly(labels, prefix, newLabel) == Append(labels, newLabel)

SwapKept_FirstOnly(labels, prefix, newLabel) ==
  LET hits == {k \in 1..Len(labels) : StartsWith(labels[k], prefix)}
      first == IF hits = {} THEN 0 ELSE CHOOSE k \in hits : \A h \in hits : k <= h
      kept == [k \in 1..(Len(labels) - (IF first = 0 THEN 0 ELSE 1)) |->
                 IF first = 0 \/ k < first THEN labels[k] ELSE labels[k + 1]]
  IN Append(kept, newLabel)

\* swapLabels: the label list written by the PUT, from the labels read.
SwapKept(labels, prefix, newLabel) ==
  Append(SelectSeq(labels, LAMBDA l : ~StartsWith(l, prefix)), newLabel)

\* labels.find(l => l.startsWith(prefix))?.slice(prefix.length) || dflt
FirstWith(labels, prefix, dflt) ==
  LET hits == SelectSeq(labels, LAMBDA l : StartsWith(l, prefix))
  IN IF hits = <<>> \/ hits[1].v = "" THEN dflt ELSE hits[1].v

\* extractFromIssue: the Task built from issue number n.  null is "".
extractFromIssue(n, issue) ==
  [ id        |-> n,
    status    |-> FirstWith(issue.labels, LABEL_STATUS, "unknown"),
    assignee  |-> FirstWith(issue.labels, LABEL_AGENT, ""),
    priority  |-> FirstWith(issue.labels, LABEL_PRIORITY, ""),
    labels    |-> issue.labels,
    body      |-> issue.body,
    workspace |-> IF Truthy(Get(parseBodyMeta(issue.body), "workspace"))
                    THEN Get(parseBodyMeta(issue.body), "workspace") ELSE <<>> ]

\* ---- handlers as sequences of tracker requests ----
\* Each handler awaits its gh() calls one after the other; a call that
\* throws ends the handler there.  failAt is the index of the call that
\* throws, 0 when none does.

StepEffect(step, issue, arg) ==
  CASE step = "comment"   -> [issue EXCEPT !.comments = Append(@, arg.comment)]
    [] step = "putLabels" ->
         [issue EXCEPT !.labels = SwapKept(@, LABEL_STATUS, StatusLabel(arg.status))]
    [] step = "close"     -> [issue EXCEPT !.open = FALSE]
    [] OTHER              -> issue      \* a read

IsWrite(step) == step \in {"comment", "putLabels", "close"}

RECURSIVE RunSteps(_, _, _, _)
RunSteps(steps, n, issue, arg) ==
  IF n = 0 THEN issue
  ELSE StepEffect(steps[n], RunSteps(steps, n - 1, issue, arg), arg)

\* Number of calls that completed, and the calls issued, for failAt.
Completed(steps, failAt) == IF failAt = 0 THEN Len(steps) ELSE failAt - 1
Issued(steps, failAt) ==
  SelectSeq(SubSeq(steps, 1, IF failAt = 0 THEN Len(steps) ELSE failAt), IsWrite)

NoPlan == [goals |-> <<>>, affected_files |-> UndefinedArr,
           effort |-> Undefined, notes |-> Undefined, none |-> TRUE]

\* The record of an operation: what was asked, whether it returned (ok) or
\* threw, the write requests it issued, the issue before it, what it
\* returned, and (saved) the plan of a savePlan that returned right before.
Op(name, id, arg, failAt, steps, pre, result) ==
  [ name |-> name, id |-> id, arg |-> arg, ok |-> failAt = 0, failAt |-> failAt,
    writes |-> Issued(steps, failAt), pre |-> pre, result |-> result,
    saved |-> IF name = "getTask" /\ lastOp.name = "savePlan" /\ lastOp.ok
                 /\ lastOp.id = id
                THEN lastOp.arg ELSE NoPlan ]

NoOp == [ name |-> "none", id |-> 0, arg |-> "", ok |-> TRUE, failAt |-> 0,
          writes |-> <<>>, pre |-> NoIssue, result |-> "", saved |-> NoPlan ]

NumIssues == Cardinality({n \in DOMAIN issues : issues[n].exists})

\* createTask: POST /repos/<repo>/issues.  The tracker numbers the issue.
CreateSteps == <<"createIssue">>

createTask(maxId, assign, priority, taskBody, workspace, failAt) ==
  LET n == NumIssues + 1
      labels == <<LABEL_TYPE,
                  AgentLabel(IF assign # "" THEN assign ELSE AGENT_NAME),
                  StatusLabel("assigned")>>
                \o (IF priority # "" THEN <<PriorityLabel(priority)>> ELSE <<>>)
      finalBody == taskBody \o
                   (IF Truthy(workspace)
                      THEN <<Lit, OpenLex(META_VERSION, "meta"),
                             JsonLex([workspace |-> workspace]), CloseLex>>
                      ELSE <<>>)
  IN /\ n <= maxId
     /\ failAt \in 0..1
     /\ issues' = IF failAt = 0
                    THEN [issues EXCEPT ![n] = [exists |-> TRUE, open |-> TRUE,
                            labels |-> labels, body |-> finalBody, comments |-> <<>>]]
                    ELSE issues
     /\ lastOp' = Op("createTask", n, assign, failAt, CreateSteps, NoIssue, "")

UpdateStatusSteps_NoClose(status) == <<"getIssue", "putLabels">>

\* updateStatus: swapLabels (GET issue, PUT labels), then the PATCH that
\* closes the issue when status === "completed".
UpdateStatusSteps(status) ==
  <<"getIssue", "putLabels">> \o (IF status = "completed" THEN <<"close">> ELSE <<>>)

updateStatus(id, status, failAt) ==
  LET steps == UpdateStatusSteps(status)
  IN /\ issues[id].exists
     /\ failAt \in 0..Len(steps)
     /\ issues' = [issues EXCEPT
                     ![id] = RunSteps(steps, Completed(steps, failAt), @,
                                      [status |-> status])]
     /\ lastOp' = Op("updateStatus", id, status, failAt, steps, issues[id], "")


\* ---- plans and reports ----

MaxComments == 2

PlainText(s) == \A k \in 1..Len(s) : s[k].t = "w"

\* A string inside JSON text: its quotes are escaped, so a complete JSON
\* member list in it no longer parses; marker syntax stays as it is.
Escape(s) == [k \in 1..Len(s) |-> IF s[k].t = "json" THEN FragLex ELSE s[k]]

RECURSIVE EscapeAll(_)
EscapeAll(texts) ==
  IF texts = <<>> THEN <<>>
  ELSE Escape(texts[1]) \o <<FragLex>> \o EscapeAll(Tail(texts))

\* JSON.stringify(obj), without the outer braces; texts are the strings in
\* obj, in key order.
JsonStringify(obj, texts) ==
  IF \A k \in 1..Len(texts) : PlainText(texts[k])
    THEN <<JsonLex(obj)>>
    ELSE <<FragLex>> \o EscapeAll(texts)

formatMetadata_Legacy(type, obj, texts, humanText) ==
  humanText \o <<Lit, OpenLex("legacy", type)>> \o JsonStringify(obj, texts) \o <<CloseLex>>

\* formatMetadata(type, data, humanText)
formatMetadata(type, obj, texts, humanText) ==
  humanText \o <<Lit, OpenLex(META_VERSION, type)>> \o JsonStringify(obj, texts) \o <<CloseLex>>

\* items.map(g => `- ${g}`).join("\n")
RECURSIVE Bullets(_)
Bullets(items) ==
  IF items = <<>> THEN <<>> ELSE <<Lit>> \o items[1] \o Bullets(Tail(items))

\* The payload savePlan stores: affected_files || [], effort || "medium".
PlanData(plan) ==
  [ goals          |-> plan.goals,
    affected_files |-> IF plan.affected_files = UndefinedArr THEN <<>>
                       ELSE plan.affected_files,
    effort         |-> IF Truthy(plan.effort) THEN plan.effort ELSE <<W("medium")>>,
    notes          |-> plan.notes ]

PlanTexts(d) ==
  d.goals \o d.affected_files \o <<d.effort>>
  \o (IF d.notes = Undefined THEN <<>> ELSE <<d.notes>>)

PlanComment(plan) ==
  LET humanText == <<Lit>> \o Bullets(plan.goals)
                   \o (IF Truthy(plan.effort) THEN <<Lit>> \o plan.effort ELSE <<>>)
                   \o (IF Truthy(plan.notes) THEN <<Lit>> \o plan.notes ELSE <<>>)
  IN formatMetadata("plan", PlanData(plan), PlanTexts(PlanData(plan)), humanText)

ReportComment(summary) ==
  formatMetadata("report", [summary |-> summary], <<summary>>, <<Lit>> \o summary)

SavePlanSteps == <<"comment">>

\* savePlan: POST the plan comment.
savePlan(id, plan, failAt) ==
  /\ issues[id].exists
  /\ Len(issues[id].comments) < MaxComments
  /\ failAt \in 0..Len(SavePlanSteps)
  /\ issues' = [issues EXCEPT
                  ![id] = RunSteps(SavePlanSteps, Completed(SavePlanSteps, failAt), @,
                                   [comment |-> PlanComment(plan)])]
  /\ lastOp' = Op("savePlan", id, plan, failAt, SavePlanSteps, NoIssue, "")

\* addComment: POST the content as it is.
addComment(id, content, failAt) ==
  /\ issues[id].exists
  /\ Len(issues[id].comments) < MaxComments
  /\ failAt \in 0..Len(SavePlanSteps)
  /\ issues' = [issues EXCEPT
                  ![id] = RunSteps(SavePlanSteps, Completed(SavePlanSteps, failAt), @,
                                   [comment |-> content])]
  /\ lastOp' = Op("addComment", id, content, failAt, SavePlanSteps, NoIssue, "")

CompleteSteps_StatusFirst == <<"getIssue", "putLabels", "comment", "close">>

\* completeTask: POST the report comment, swapLabels (GET issue, PUT
\* labels), PATCH state closed.
CompleteSteps == <<"comment", "getIssue", "putLabels", "close">>

completeTask(id, summary, failAt) ==
  /\ issues[id].exists
  /\ Len(issues[id].comments) < MaxComments
  /\ failAt \in 0..Len(CompleteSteps)
  /\ issues' = [issues EXCEPT
                  ![id] = RunSteps(CompleteSteps, Completed(CompleteSteps, failAt), @,
                                   [comment |-> ReportComment(summary),
                                    status |-> "completed"])]
  /\ lastOp' = Op("completeTask", id, summary, failAt, CompleteSteps, issues[id], "")

\* comments.map(c => parseMetadata(c.body, type)).find(Boolean) || null
RECURSIVE FirstMeta(_, _)
FirstMeta(comments, type) ==
  IF comments = <<>> THEN Null
  ELSE IF parseMetadata(comments[1], type) # Null THEN parseMetadata(comments[1], type)
  ELSE FirstMeta(Tail(comments), type)

GetTaskSteps == <<"getIssue", "getComments">>

\* getTask: GET issue and GET comments (Promise.all), then the projection.
getTask(id, failAt) ==
  /\ issues[id].exists
  /\ failAt \in 0..Len(GetTaskSteps)
  /\ issues' = issues
  /\ lastOp' = Op("getTask", id, "", failAt, GetTaskSteps, NoIssue,
                  IF failAt # 0 THEN ""
                  ELSE [ task   |-> extractFromIssue(id, issues[id]),
                         plan   |-> FirstMeta(issues[id].comments, "plan"),
                         report |-> FirstMeta(issues[id].comments, "report"),
                         comments |-> issues[id].comments ])

QueryLabels_AgentOnly(status) == {LABEL_TYPE, AgentLabel(AGENT_NAME)}

\* getTasks: the labels of the list query; status is "" when not given.
QueryLabels(status) ==
  IF status # "" THEN {LABEL_TYPE, StatusLabel(status)}
  ELSE {LABEL_TYPE, AgentLabel(AGENT_NAME)}

Range(f) == {f[k] : k \in DOMAIN f}

\* The tracker's answer to GET /issues?labels=...&state=open: the open
\* issues that carry every label of the query.
ListIssues(labels) ==
  {n \in DOMAIN issues : issues[n].exists /\ issues[n].open
                          /\ labels \subseteq Range(issues[n].labels)}

ListSteps == <<"listIssues">>

\* issues.map(extractFromIssue)
TasksOf(ids) == {extractFromIssue(n, issues[n]) : n \in ids}

getTasks(status, failAt) ==
  /\ failAt \in 0..Len(ListSteps)
  /\ issues' = issues
  /\ lastOp' = Op("getTasks", 0, status, failAt, ListSteps, NoIssue,
                  IF failAt # 0 THEN {} ELSE TasksOf(ListIssues(QueryLabels(status))))

\* ---- the tracker's other users ----

MaxStatusLabels == 2

NumStatusLabels(issue) ==
  Len(SelectSeq(issue.labels, LAMBDA l : StartsWith(l, LABEL_STATUS)))

\* Somebody adds a status label by hand (the tracker's own UI).
TrackerAddLabel(id, s) ==
  /\ issues[id].exists
  /\ StatusLabel(s) \notin Range(issues[id].labels)
  /\ NumStatusLabels(issues[id]) < MaxStatusLabels
  /\ issues' = [issues EXCEPT ![id].labels = Append(@, StatusLabel(s))]
  /\ lastOp' = Op("trackerAddLabel", id, s, 0, <<>>, NoIssue, "")

\* Somebody removes a status label by hand.
TrackerRemoveLabel(id, s) ==
  /\ issues[id].exists
  /\ StatusLabel(s) \in Range(issues[id].labels)
  /\ issues' = [issues EXCEPT
                  ![id].labels = SelectSeq(@, LAMBDA l : l # StatusLabel(s))]
  /\ lastOp' = Op("trackerRemoveLabel", id, s, 0, <<>>, NoIssue, "")


(***************************************************************************)
(* lota(): the route table, and startup recovery on top of it              *)
(***************************************************************************)

\* The route table: method and path pattern of every route.
Routes ==
  { <<"GET", "/tasks">>, <<"GET", "/tasks/:id">>, <<"POST", "/tasks">>,
    <<"POST", "/tasks/:id/plan">>, <<"POST", "/tasks/:id/status">>,
    <<"POST", "/tasks/:id/complete">>, <<"POST", "/tasks/:id/comment">>,
    <<"GET", "/sync">> }

RouteFound_WithMeta(method, path) ==
  <<method, path>> \in Routes \cup {<<"PATCH", "/tasks/:id/meta">>}

\* lota(method, path): FALSE is the throw of LOTA_UNKNOWN_ROUTE, which
\* safeLota turns into { ok: false }.
RouteFound(method, path) == <<method, path>> \in Routes

RECOVERY_LIMIT == 3
TWO_MINUTES == 2

\* task.retries ?? 0, on a Task built by extractFromIssue
TaskRetries(task) == IF "retries" \in DOMAIN task THEN task.retries ELSE 0

\* task.updatedAt && Date.now() - updatedAt < TWO_MINUTES_MS (in minutes)
StartupSkips(task) == "updatedAt" \in DOMAIN task /\ task.updatedAt < TWO_MINUTES

recoverOrFailTask_Unchecked(issue, task, statusFailAt, commentFails) ==
  LET commented(i, text) ==
        IF commentFails THEN i ELSE [i EXCEPT !.comments = Append(@, text)]
      status(i, s) ==
        RunSteps(UpdateStatusSteps(s), Completed(UpdateStatusSteps(s), statusFailAt),
                 i, [status |-> s])
  IN IF TaskRetries(task) < RECOVERY_LIMIT
       THEN commented(status(issue, "assigned"), <<W("auto-recovery")>>)
       ELSE IF statusFailAt # 0
              THEN status(issue, "failed")
              ELSE commented(status(issue, "failed"), <<W("failed-after-3")>>)

\* recoverOrFailTask: what it makes of the issue.  statusFailAt is the
\* failing call of the status update (0: none), commentFails the comment's.
recoverOrFailTask(issue, task, statusFailAt, commentFails) ==
  LET commented(i, text) ==
        IF commentFails THEN i ELSE [i EXCEPT !.comments = Append(@, text)]
      status(i, s) ==
        RunSteps(UpdateStatusSteps(s), Completed(UpdateStatusSteps(s), statusFailAt),
                 i, [status |-> s])
  IN IF TaskRetries(task) < RECOVERY_LIMIT
       THEN IF ~RouteFound("PATCH", "/tasks/:id/meta")
              THEN issue                        \* patchResult.ok is false: return
              ELSE commented(status(issue, "assigned"), <<W("auto-recovery")>>)
       ELSE IF statusFailAt # 0
              THEN status(issue, "failed")      \* statusResult.ok is false: return
              ELSE commented(status(issue, "failed"), <<W("failed-after-3")>>)

\* recoverStaleTasks: the list, then for each task of this agent the detail
\* fetch and recoverOrFailTask.
recoverStaleTasks(listFails, detailFails, statusFailAt, commentFails) ==
  LET tasks == IF listFails THEN {}
               ELSE TasksOf(ListIssues(QueryLabels("in-progress")))
      myTasks == {t \in tasks : t.assignee = AGENT_NAME}
      handled == {t \in myTasks : ~StartupSkips(t) /\ t.id \notin detailFails}
      ids == {t.id : t \in handled}
  IN /\ detailFails \subseteq {t.id : t \in myTasks}
     /\ issues' = [n \in DOMAIN issues |->
                     IF n \in ids
                       THEN recoverOrFailTask(issues[n], extractFromIssue(n, issues[n]),
                                              statusFailAt, commentFails)
                       ELSE issues[n]]
     /\ lastOp' = [Op("recoverStaleTasks", 0, "", 0, <<>>, NoIssue, ids)
                   EXCEPT !.ok = ~listFails /\ detailFails = {},
                          !.pre = issues]

FIVE_MINUTES == 5

\* !task.updatedAt || age < FIVE_MINUTES_MS (in minutes)
RuntimeSkips(task) == "updatedAt" \notin DOMAIN task \/ task.updatedAt < FIVE_MINUTES

\* checkRuntimeStaleTasks: the list, then for each task of this agent that
\* is not skipped the status update and, when that returned, the comment.
checkRuntimeStaleTasks(listFails, statusFailAt, commentFails) ==
  LET tasks == IF listFails THEN {}
               ELSE TasksOf(ListIssues(QueryLabels("in-progress")))
      stale == {t \in tasks : t.assignee = AGENT_NAME /\ ~RuntimeSkips(t)}
      ids == {t.id : t \in stale}
      steps == UpdateStatusSteps("assigned")
      reset(i) ==
        LET s == RunSteps(steps, Completed(steps, statusFailAt), i,
                          [status |-> "assigned"])
        IN IF statusFailAt # 0 \/ commentFails THEN s
           ELSE [s EXCEPT !.comments = Append(@, <<W("runtime-recovery")>>)]
  IN /\ issues' = [n \in DOMAIN issues |->
                     IF n \in ids THEN reset(issues[n]) ELSE issues[n]]
     /\ lastOp' = [Op("checkRuntimeStaleTasks", 0, "", 0, <<>>, NoIssue, ids)
                   EXCEPT !.ok = ~listFails, !.pre = issues]

(***************************************************************************)
(* The runner: executeTask, the poll loop and the subprocess               *)
(***************************************************************************)

NoTask == 0

\* The status executeTask sends when it takes a task.
IN_PROGRESS == "in_progress"

\* exec[id].pc: "none" | "status" (awaiting updateTaskStatus) |
\* "running" (awaiting the child's close) | "spawnFailed" (awaiting its error)
NoExec == [pc |-> "none", origin |-> ""]

\* loop.pc: "sleep" | "fetch" (pollForTasks awaiting fetchAssignedTasks) |
\* "await" (awaiting the executeTask it called for loop.id)
Asleep == [pc |-> "sleep", id |-> NoTask]

\* An operation of the runner, recorded like the task store's.
RunnerOp(name, id, arg, result) == Op(name, id, arg, 0, <<>>, NoIssue, result)

\* The API's answer to GET /api/tasks?agentId=..&status=..: the open tasks
\* with that assignee and, when a status is given, that status.
ApiTasks(agentId, status) ==
  TasksOf(ListIssues({LABEL_TYPE, AgentLabel(agentId)}
                     \cup (IF status = "" THEN {} ELSE {StatusLabel(status)})))

fetchAssignedTasks_AnyStatus == ApiTasks(AGENT_NAME, "")

\* fetchAssignedTasks
fetchAssignedTasks == ApiTasks(AGENT_NAME, "assigned")

ExecAccepts_NoBusyCheck(id) == id \notin processedTaskIds

ExecAccepts_NoProcessedCheck(id) == currentTask = NoTask

\* executeTask: neither of its two early returns is taken.
ExecAccepts(id) == id \notin processedTaskIds /\ currentTask = NoTask

ExecuteEntry_TaskNotSet(id, origin) ==
  IF ExecAccepts(id)
    THEN /\ processedTaskIds' = processedTaskIds \cup {id}
         /\ currentTask' = currentTask
         /\ exec' = [exec EXCEPT ![id] = [pc |-> "status", origin |-> origin]]
    ELSE UNCHANGED <<processedTaskIds, currentTask, exec>>

\* executeTask(task) from its call to its first await.
ExecuteEntry(id, origin) ==
  IF ExecAccepts(id)
    THEN /\ processedTaskIds' = processedTaskIds \cup {id}
         /\ currentTask' = id
         /\ exec' = [exec EXCEPT ![id] = [pc |-> "status", origin |-> origin]]
    ELSE UNCHANGED <<processedTaskIds, currentTask, exec>>

\* A caller calls executeTask(task).
ExecuteCall(id) ==
  /\ issues[id].exists
  /\ ExecuteEntry(id, "call")
  /\ lastOp' = RunnerOp("executeTask", id, "call",
                        IF ExecAccepts(id) THEN "accepted" ELSE "skipped")
  /\ UNCHANGED <<issues, currentProcess, alive, spawned, statusSent, loop>>

MaxRuns == 2

\* executeTask from updateTaskStatus to the await of the child: the status
\* update returns or throws (the throw is logged), then spawnClaude spawns
\* the child and sets currentProcess.  spawnOk: the child came to exist
\* (otherwise its 'error' event follows).
ExecuteSpawn(id, failAt, spawnOk) ==
  LET steps == UpdateStatusSteps(IN_PROGRESS)
  IN /\ exec[id].pc = "status"
     /\ spawned[id] < MaxRuns
     /\ failAt \in 0..Len(steps)
     /\ issues' = [issues EXCEPT
                     ![id] = RunSteps(steps, Completed(steps, failAt), @,
                                      [status |-> IN_PROGRESS])]
     /\ statusSent' = [statusSent EXCEPT ![id] = @ + 1]
     /\ spawned' = [spawned EXCEPT ![id] = @ + 1]
     /\ currentProcess' = id
     /\ alive' = IF spawnOk THEN alive \cup {id} ELSE alive
     /\ exec' = [exec EXCEPT ![id].pc = IF spawnOk THEN "running" ELSE "spawnFailed"]
     /\ lastOp' = RunnerOp("spawnClaude", id, exec[id].origin, spawnOk)
     /\ UNCHANGED <<currentTask, processedTaskIds, loop>>

\* The end of an accepted executeTask: the promise of spawnClaude resolves,
\* the finally block clears currentTask, and a main loop that awaited this
\* call goes on to its sleep.
ExecuteEnd(id) ==
  /\ currentProcess' = NoTask
  /\ currentTask' = NoTask
  /\ exec' = [exec EXCEPT ![id] = NoExec]
  /\ loop' = IF loop.pc = "await" /\ loop.id = id THEN Asleep ELSE loop
  /\ UNCHANGED <<issues, processedTaskIds, spawned, statusSent>>

\* child.on("close"): the subprocess has exited with `code`.
ChildClose(id, code) ==
  /\ exec[id].pc = "running"
  /\ alive' = alive \ {id}
  /\ ExecuteEnd(id)
  /\ lastOp' = RunnerOp("childClose", id, exec[id].origin, code)

\* child.on("error"): the subprocess could not be spawned.
ChildError(id) ==
  /\ exec[id].pc = "spawnFailed"
  /\ alive' = alive
  /\ ExecuteEnd(id)
  /\ lastOp' = RunnerOp("childError", id, exec[id].origin, 1)

\* pollForTasks up to its await of fetchAssignedTasks.
PollStart ==
  /\ loop.pc = "sleep"
  /\ loop' = IF currentTask # NoTask THEN loop ELSE [pc |-> "fetch", id |-> NoTask]
  /\ lastOp' = RunnerOp("pollStart", 0, "",
                        IF currentTask # NoTask THEN "busy" ELSE "fetch")
  /\ UNCHANGED <<issues, currentTask, currentProcess, processedTaskIds, exec,
                 alive, spawned, statusSent>>

\* pollForTasks from the answer of fetchAssignedTasks: executeTask for the
\* first task of the list that is not processed (the list's order is the
\* tracker's), then break.
PollFetched(fetchFails) ==
  LET candidates == IF fetchFails THEN {}
                    ELSE {t.id : t \in fetchAssignedTasks} \ processedTaskIds
  IN /\ loop.pc = "fetch"
     /\ IF candidates = {}
          THEN /\ loop' = Asleep
               /\ lastOp' = [RunnerOp("pollForTasks", 0, "", "none")
                             EXCEPT !.ok = ~fetchFails]
               /\ UNCHANGED <<processedTaskIds, currentTask, exec>>
          ELSE \E id \in candidates :
                 /\ ExecuteEntry(id, "poll")
                 /\ loop' = IF ExecAccepts(id) THEN [pc |-> "await", id |-> id]
                            ELSE Asleep
                 /\ lastOp' = RunnerOp("pollForTasks", id, "",
                                IF ExecAccepts(id) THEN "accepted" ELSE "skipped")
     /\ UNCHANGED <<issues, currentProcess, alive, spawned, statusSent>>

\* handleMessage for "start task <id>": fetchTask, the two checks, then
\* executeTask.
MessageStart(id, fetchFails) ==
  /\ loop.pc = "sleep"
  /\ IF fetchFails \/ ~issues[id].exists
       THEN /\ lastOp' = [RunnerOp("handleMessage", id, "", "none")
                          EXCEPT !.ok = FALSE]
            /\ UNCHANGED <<processedTaskIds, currentTask, exec, loop>>
       ELSE /\ ExecuteEntry(id, "message")
            /\ loop' = IF ExecAccepts(id) THEN [pc |-> "await", id |-> id] ELSE loop
            /\ lastOp' = RunnerOp("handleMessage", id, "",
                            IF ExecAccepts(id) THEN "accepted" ELSE "skipped")
  /\ UNCHANGED <<issues, currentProcess, alive, spawned, statusSent>>

\* Runtime recovery, once per poll cycle.
RuntimeRecovery(listFails, statusFailAt, commentFails) ==
  /\ loop.pc = "sleep"
  /\ checkRuntimeStaleTasks(listFails, statusFailAt, commentFails)
  /\ UNCHANGED runnerVars

\* The daemon process starts (again): the state of a fresh process, and
\* startup recovery before the poll loop.
DaemonStart(listFails, detailFails, statusFailAt, commentFails) ==
  /\ recoverStaleTasks(listFails, detailFails, statusFailAt, commentFails)
  /\ currentTask' = NoTask
  /\ currentProcess' = NoTask
  /\ processedTaskIds' = {}
  /\ exec' = [n \in DOMAIN issues |-> NoExec]
  /\ alive' = {}
  /\ spawned' = [n \in DOMAIN issues |-> 0]
  /\ statusSent' = [n \in DOMAIN issues |-> 0]
  /\ loop' = Asleep

\* Somebody outside the daemon (an operator, the hub, the subprocess through
\* its tools) sets a task's status.  A task has one assignee: nobody else
\* writes its status while the daemon's own status update is in flight.
ExternalStatus(id, status) ==
  LET steps == UpdateStatusSteps(status)
  IN /\ issues[id].exists
     /\ exec[id].pc # "status"
     /\ issues' = [issues EXCEPT
                     ![id] = RunSteps(steps, Len(steps), @, [status |-> status])]
     /\ lastOp' = RunnerOp("externalStatus", id, status, "")
     /\ UNCHANGED runnerVars

(***************************************************************************)
(* runClaude and merge-back (src/src/process.ts, src/src/worktree.ts)      *)
(*                                                                         *)
(* Every agent is a daemon process with its own clone of the repository;   *)
(* the clones share one remote.  A branch is the set of change sets it     *)
(* contains; the change set of an agent's task carries the agent's name.   *)
(* The git commands themselves (./git.js) are not part of the sources:     *)
(* they are modelled by what git does to branches, and the commands a      *)
(* process issues are recorded in its log.  The code runs git              *)
(* synchronously, so a step of a process is atomic up to its next          *)
(* exchange with the remote (a pull or a push), where another agent's      *)
(* process can come between.                                               *)
(***************************************************************************)

Agents == {"a1", "a2"}

ExitCodes == {0, 1}

ConflictLevels == {"none", "merge", "true"}

GitErrors == {"none", "merge", "rebase", "default", "checkout"}

MAX_PUSH_RETRIES == 3

MergeBranchPushes == 3

NoResult == [success |-> FALSE, hasConflicts |-> FALSE, none |-> TRUE]

\* MergeResult without its output text.
MergeResult(success, hasConflicts) ==
  [success |-> success, hasConflicts |-> hasConflicts, none |-> FALSE]

InitRepo ==
  [pc |-> "idle", busy |-> FALSE,
   strategy |-> "none", root |-> TRUE, code |-> 0, closed |-> FALSE,
   main |-> {}, tracking |-> {}, branch |-> {},
   hasWorktree |-> FALSE, hasBranch |-> FALSE,
   didStash |-> FALSE, attempt |-> 0, result |-> NoResult,
   comment |-> "none", env |-> FALSE, log |-> <<>>,
   cleanups |-> 0, threw |-> FALSE, created |-> "none"]

\* The process issues these git commands (or enters these functions).
Git(L, ops) == [L EXCEPT !.log = @ \o ops]

\* A command that can conflict, followed in the log by git's answer.
GitAnswer(L, op, conflict) ==
  Git(L, IF conflict THEN <<op, "CONFLICT">> ELSE <<op>>)

Conflicted(L, op) ==
  \E i \in 1..(Len(L.log) - 1) : L.log[i] = op /\ L.log[i + 1] = "CONFLICT"

Ran(L, op) == \E i \in 1..Len(L.log) : L.log[i] = op

\* ---- git, by what it does to branches ----------------------------------

Diverged(ours, theirs) == (ours \ theirs) # {} /\ (theirs \ ours) # {}

\* A three-way merge of two diverged branches conflicts when the two change
\* sets touch the same lines; replaying the task's commits on top of the
\* other change (a rebase) still conflicts only for a true conflict.
MergeConflicts(ours, theirs) ==
  conflictLevel # "none" /\ Diverged(ours, theirs)

RebaseConflicts(onto, branch) ==
  conflictLevel = "true" /\ Diverged(onto, branch)

\* git pull: fetch the remote's default branch and merge it into the local
\* one; the caller ignores whether it worked.
pull(L, R, pullFails) ==
  IF pullFails THEN Git(L, <<"pull">>)
  ELSE [Git(L, <<"pull">>) EXCEPT
          !.tracking = R,
          !.main = IF MergeConflicts(L.main, R) THEN @ ELSE @ \cup R]

\* git push: the remote takes the local default branch when that is a
\* fast-forward of its own.
pushOk(L, R, netFail) == ~netFail /\ R \subseteq L.main

\* git merge <branch> in the main workspace.
mergeOk(L, gitErr) ==
  /\ gitErr # "merge"
  /\ L.hasBranch
  /\ ~MergeConflicts(L.main, L.branch)

\* git.hasConflicts after a failed merge: unmerged paths are left behind.
hasConflicts(L, gitErr) ==
  gitErr # "merge" /\ L.hasBranch /\ MergeConflicts(L.main, L.branch)

\* git reset --hard: the default branch goes back to the fetched remote head.
resetHard(L) == [Git(L, <<"resetHard">>) EXCEPT !.main = L.tracking]

\* ---- src/src/worktree.ts -----------------------------------------------

\* The step of createWorktree that fails, if any: the isGitRepo check, the
\* mkdirSync of the worktrees directory, or git worktree add.
CreateOutcomes == {"ok", "notRepo", "mkdir", "add"}

\* createWorktree: what it returns is in `created`; mkdirSync stands outside
\* any try, so its exception leaves the function.
createWorktree(L, a, create) ==
  IF create = "notRepo" THEN [L EXCEPT !.created = "null"]
  ELSE IF create = "mkdir" THEN [L EXCEPT !.created = "threw"]
  ELSE LET stale == [Git(L, <<"worktreeRemove", "deleteBranch", "worktreeAdd">>)
                       EXCEPT !.hasWorktree = FALSE, !.hasBranch = FALSE]
       IN IF create = "add" THEN [stale EXCEPT !.created = "null"]
          ELSE [stale EXCEPT !.created = "info", !.hasWorktree = TRUE,
                             !.hasBranch = TRUE, !.branch = L.main]

cleanupWorktree(L) ==
  [Git(L, <<"worktreeRemove", "deleteBranch">>) EXCEPT
     !.hasWorktree = FALSE, !.hasBranch = FALSE]

\* ---- the worktree functions written with execSync (part_004) ----------

\* What a call leaves: the repository, and whether an exception left it.
Exec(L, threw) == [repo |-> L, threw |-> threw]

\* execSync("git worktree remove <path> --force"): git exits nonzero, and
\* execSync throws, when there is no such worktree or git cannot remove it.
GitWorktreeRemove(L, rmFails) ==
  IF L.hasWorktree /\ ~rmFails
  THEN Exec([Git(L, <<"worktreeRemove">>) EXCEPT !.hasWorktree = FALSE], FALSE)
  ELSE Exec(Git(L, <<"worktreeRemove">>), TRUE)

\* execSync("git branch -D <branch>"): throws when there is no such branch
\* or a worktree still has it checked out.
GitBranchDelete(L) ==
  IF L.hasBranch /\ ~L.hasWorktree
  THEN Exec([Git(L, <<"deleteBranch">>) EXCEPT !.hasBranch = FALSE], FALSE)
  ELSE Exec(Git(L, <<"deleteBranch">>), TRUE)

TryCatch_Rethrow(r) == r

\* try { ... } catch { /* ignore */ }
TryCatch(r) == [r EXCEPT !.threw = FALSE]

\* cleanupWorktree of part_004: both commands inside their own try.
cleanupWorktreeExec(L, rmFails) ==
  LET removed == IF L.hasWorktree
                 THEN TryCatch(GitWorktreeRemove(L, rmFails))
                 ELSE Exec(L, FALSE)
  IN IF removed.threw THEN removed
     ELSE TryCatch(GitBranchDelete(removed.repo))

MaxCleanups == 2

\* A call of cleanupWorktree for the agent's slot and task branch from
\* outside a run, in either of its two versions.  The log stays the run's.
CleanupWorktreeCall(a, variant, rmFails) ==
  LET L == repos[a]
      r == IF variant = "exec" THEN cleanupWorktreeExec(L, rmFails)
           ELSE Exec(cleanupWorktree(L), FALSE)
  IN /\ L.pc \in {"done", "errored"}
     /\ L.cleanups < MaxCleanups
     /\ rmFails => variant = "exec" /\ L.hasWorktree
     /\ repos' = [repos EXCEPT ![a] =
          [r.repo EXCEPT !.threw = r.threw, !.cleanups = @ + 1,
                         !.log = L.log]]
     /\ UNCHANGED <<remote, conflictLevel>>

Return_NoPop(L, result) == [L EXCEPT !.result = result, !.pc = "returned"]

\* A return of mergeWorktree: the stash is popped first when one was made.
Return(L, result) ==
  [(IF L.didStash THEN Git(L, <<"stashPop">>) ELSE L) EXCEPT
     !.result = result, !.pc = "returned"]

\* tryRebaseThenMerge up to its push: the outcome null leaves pc alone, a
\* rebase followed by the fast-forward merge leaves the process at the push.
\* The fast-forward merge cannot fail after the rebase onto the same branch.
tryRebaseThenMerge(L, gitErr) ==
  LET listed == Git(L, <<"tryRebaseThenMerge", "worktreeList">>)
  IN IF ~(L.hasWorktree /\ L.hasBranch) THEN listed
     ELSE IF gitErr = "rebase" \/ RebaseConflicts(L.main, L.branch)
          THEN Git(GitAnswer(listed, "rebase", gitErr # "rebase"),
                   <<"rebaseAbort">>)
          ELSE [Git(listed, <<"rebase", "merge">>) EXCEPT
                  !.branch = L.main \cup L.branch,
                  !.main = L.main \cup L.branch,
                  !.pc = "rbPush"]

\* mergeWorktree from its entry to its first push or its return.
mergeWorktree(L, R, dirty, pullFails, gitErr) ==
  LET stashed == [Git(L, <<"mergeWorktree", "stash">>) EXCEPT !.didStash = dirty]
      pulled == pull(stashed, R, pullFails)
      hadConflicts == hasConflicts(pulled, gitErr)
      aborted == Git(GitAnswer(pulled, "merge", hadConflicts),
                     <<"hasConflicts", "mergeAbort">>)
      rebased == tryRebaseThenMerge(aborted, gitErr)
  IN IF mergeOk(pulled, gitErr)
     THEN [Git(pulled, <<"merge">>) EXCEPT
             !.main = @ \cup pulled.branch, !.pc = "mwPush", !.attempt = 1]
     ELSE IF hadConflicts /\ rebased.pc = "rbPush" THEN rebased
     ELSE Return(IF hadConflicts THEN rebased ELSE aborted,
                 MergeResult(FALSE, hadConflicts))

\* One turn of the push loop: the push, then either the return or the reset
\* before the next pull.
mergeWorktreePush(L, R, netFail) ==
  LET pushed == Git(L, <<"push">>)
  IN IF pushOk(L, R, netFail)
     THEN Return([pushed EXCEPT !.tracking = L.main], MergeResult(TRUE, FALSE))
     ELSE IF L.attempt >= MAX_PUSH_RETRIES
          THEN Return(pushed, MergeResult(FALSE, FALSE))
          ELSE [resetHard(pushed) EXCEPT !.pc = "mwPull"]

\* The rest of the turn: pull and re-merge; a failed re-merge ends the call.
mergeWorktreePull(L, R, pullFails, gitErr) ==
  LET pulled == pull(L, R, pullFails)
  IN IF mergeOk(pulled, gitErr)
     THEN [Git(pulled, <<"merge">>) EXCEPT
             !.main = @ \cup pulled.branch, !.pc = "mwPush",
             !.attempt = @ + 1]
     ELSE Return(Git(GitAnswer(pulled, "merge", hasConflicts(pulled, gitErr)),
                     <<"mergeAbort">>),
                 MergeResult(FALSE, TRUE))

tryRebaseThenMergePush_Unchecked(L, R, netFail) ==
  Return(Git(L, <<"push">>), MergeResult(TRUE, FALSE))

\* The single push of tryRebaseThenMerge and the return through mergeWorktree.
tryRebaseThenMergePush(L, R, netFail) ==
  LET pushed == Git(L, <<"push">>)
  IN IF pushOk(L, R, netFail)
     THEN Return([pushed EXCEPT !.tracking = L.main], MergeResult(TRUE, FALSE))
     ELSE Return(pushed, MergeResult(FALSE, FALSE))

\* ---- src/src/process.ts ------------------------------------------------

\* A return of mergeBranch.
ReturnBranch(L, result) == [L EXCEPT !.result = result, !.pc = "returned"]

\* mergeBranch from its entry to its first push or its return.
mergeBranch(L, R, pullFails, gitErr) ==
  LET entered == Git(L, <<"mergeBranch", "getDefaultBranch">>)
      checked == Git(entered, <<"checkout">>)
      pulled == pull(checked, R, pullFails)
  IN IF gitErr = "default" THEN ReturnBranch(entered, MergeResult(FALSE, FALSE))
     ELSE IF gitErr = "checkout"
          THEN ReturnBranch(checked, MergeResult(FALSE, FALSE))
     ELSE IF mergeOk(pulled, gitErr)
          THEN [Git(pulled, <<"merge">>) EXCEPT
                  !.main = @ \cup pulled.branch, !.pc = "mbPush",
                  !.attempt = 0]
     ELSE IF hasConflicts(pulled, gitErr)
          THEN ReturnBranch(Git(GitAnswer(pulled, "merge", TRUE),
                                <<"hasConflicts", "mergeAbort">>),
                            MergeResult(FALSE, TRUE))
          ELSE ReturnBranch(Git(pulled, <<"merge", "hasConflicts">>),
                            MergeResult(FALSE, FALSE))

\* One push of mergeBranch's loop; after the last one the loop ends.
mergeBranchPush(L, R, netFail) ==
  LET pushed == Git(L, <<"push">>)
  IN IF pushOk(L, R, netFail)
     THEN ReturnBranch([Git(pushed, <<"deleteBranch", "deleteRemoteBranch">>)
                          EXCEPT !.tracking = L.main, !.hasBranch = FALSE],
                       MergeResult(TRUE, FALSE))
     ELSE IF L.attempt + 1 < MergeBranchPushes
          THEN [pushed EXCEPT !.pc = "mbPull"]
          ELSE ReturnBranch(pushed, MergeResult(FALSE, FALSE))

\* The pull between two pushes of mergeBranch.
mergeBranchPull(L, R, pullFails) ==
  [pull(L, R, pullFails) EXCEPT !.pc = "mbPush", !.attempt = @ + 1]

\* setupBranchStrategy: which isolation the run gets.
setupBranchStrategy(L, a, phaseOk, isRoot, useWorktree, create) ==
  IF ~phaseOk \/ ~isRoot THEN [L EXCEPT !.strategy = "none"]
  ELSE IF useWorktree
       THEN LET made == createWorktree(L, a, create)
            IN [made EXCEPT !.strategy = IF made.created = "info"
                                         THEN "worktree" ELSE "none"]
       ELSE [L EXCEPT !.strategy = "branch"]

\* The conflict comment: a request to the tracker that nobody waits for and
\* whose failure is only logged.
PostComment(L, commentOk) ==
  [L EXCEPT !.comment = IF commentOk THEN "posted" ELSE "failed"]

MergeBack_AnyCode(L, code, isRoot) ==
  IF L.strategy = "worktree" THEN "mergeWorktree"
  ELSE IF L.strategy = "branch" /\ isRoot THEN "mergeBranch"
  ELSE "none"

\* handlePostCompletion: which merge-back it calls.
MergeBack(L, code, isRoot) ==
  IF L.strategy = "worktree"
  THEN (IF code = 0 THEN "mergeWorktree" ELSE "none")
  ELSE IF L.strategy = "branch" /\ code = 0 /\ isRoot THEN "mergeBranch"
  ELSE "none"

AfterMerge_CleanupOnConflict(L, commentOk) ==
  [(IF L.strategy = "worktree" THEN cleanupWorktree(L) ELSE L)
     EXCEPT !.pc = "done"]

\* handlePostCompletion after the merge-back has returned.
AfterMerge(L, commentOk) ==
  LET done == [L EXCEPT !.pc = "done"]
  IN IF L.strategy = "worktree"
     THEN IF L.result.success THEN cleanupWorktree(done)
          ELSE IF L.result.hasConflicts THEN PostComment(done, commentOk)
          ELSE cleanupWorktree(done)
     ELSE IF L.result.success THEN done
          ELSE IF L.result.hasConflicts THEN PostComment(done, commentOk)
          ELSE done

\* A step of handlePostCompletion ends it once the merge-back has returned.
Settle(L, commentOk) ==
  IF L.pc = "returned" THEN AfterMerge(L, commentOk) ELSE L

\* handlePostCompletion from its entry to the first push or to its end.
handlePostCompletion(L, R, code, isRoot, dirty, pullFails, gitErr, commentOk) ==
  LET back == MergeBack(L, code, isRoot)
  IN IF back = "mergeWorktree"
     THEN Settle(mergeWorktree(L, R, dirty, pullFails, gitErr), commentOk)
     ELSE IF back = "mergeBranch"
          THEN Settle(mergeBranch(L, R, pullFails, gitErr), commentOk)
     ELSE IF L.strategy = "worktree"
          THEN [cleanupWorktree(L) EXCEPT !.pc = "done"]
          ELSE [L EXCEPT !.pc = "done"]

\* The change sets of the other agents' tasks.
Others(a) == Agents \ {a}

\* runClaude: the busy check, the branch strategy, the spawn.  An exception
\* inside the promise's executor rejects the promise: nothing is spawned and
\* busy stays set.
runClaude(a, phaseOk, isRoot, useWorktree, create) ==
  LET L == repos[a]
      setup == setupBranchStrategy(L, a, phaseOk, isRoot, useWorktree, create)
  IN /\ L.pc \in {"idle", "running", "committed", "rejected"}
     /\ ~(phaseOk /\ isRoot /\ useWorktree) => create = "ok"
     /\ repos' = [repos EXCEPT ![a] =
          IF L.busy THEN L
          ELSE [setup EXCEPT !.busy = TRUE,
                             !.pc = IF setup.created = "threw"
                                    THEN "rejected" ELSE "running"]]
     /\ UNCHANGED <<remote, conflictLevel>>

\* The 'error' event of the child: the spawn failed.
ChildProcessError(a) ==
  LET L == repos[a]
  IN /\ L.pc = "running"
     /\ repos' = [repos EXCEPT ![a] = [L EXCEPT !.busy = FALSE, !.pc = "errored"]]
     /\ UNCHANGED <<remote, conflictLevel>>

\* The subprocess commits the task's change set on the task branch (with
\* the branch strategy it has created the branch itself).  How the change
\* conflicts with the other agent's is settled by whoever commits second.
SubprocessCommit(a, level) ==
  LET L == repos[a]
  IN /\ L.pc = "running"
     /\ conflictLevel' = IF \E b \in Others(a) : b \in repos[b].branch
                         THEN level ELSE conflictLevel
     /\ repos' = [repos EXCEPT ![a] =
          [L EXCEPT !.branch = L.main \cup {a},
                    !.hasBranch = (L.strategy # "none"),
                    !.pc = "committed"]]
     /\ UNCHANGED remote

\* The 'close' event of the child.  After a failed spawn the event, when
\* the runtime emits it, carries a nonzero code.
ChildProcessClose(a, code, isRoot, dirty, pullFails, gitErr, commentOk) ==
  LET L == repos[a]
      closed == [L EXCEPT
                   !.busy = FALSE, !.closed = TRUE, !.code = code,
                   !.root = isRoot,
                   !.env = pullFails \/ gitErr # "none"]
      back == MergeBack(L, code, isRoot)
  IN /\ L.pc \in {"running", "committed", "errored"}
     /\ L.pc = "errored" => code # 0
     \* inputs that the code does not read on this path are left out
     /\ ~(L.strategy = "branch" /\ code = 0) => isRoot
     /\ back = "none" => ~dirty /\ ~pullFails /\ gitErr = "none"
     /\ back = "mergeWorktree" => gitErr \in {"none", "merge", "rebase"}
     /\ back = "mergeBranch" =>
          ~dirty /\ gitErr \in {"none", "merge", "default", "checkout"}
     /\ repos' = [repos EXCEPT ![a] =
          handlePostCompletion(closed, remote, code, isRoot, dirty, pullFails,
                               gitErr, commentOk)]
     /\ UNCHANGED <<remote, conflictLevel>>

\* The process reaches a push.
Push(a, netFail, commentOk) ==
  LET L == repos[a]
      env == [L EXCEPT !.env = @ \/ netFail]
      pushed == IF L.pc = "mwPush" THEN mergeWorktreePush(env, remote, netFail)
                ELSE IF L.pc = "rbPush"
                     THEN tryRebaseThenMergePush(env, remote, netFail)
                     ELSE mergeBranchPush(env, remote, netFail)
  IN /\ L.pc \in {"mwPush", "rbPush", "mbPush"}
     /\ remote' = IF pushOk(L, remote, netFail) THEN L.main ELSE remote
     /\ repos' = [repos EXCEPT ![a] = Settle(pushed, commentOk)]
     /\ UNCHANGED conflictLevel

\* The process reaches the pull after a rejected push.
Pull(a, pullFails, gitErr, commentOk) ==
  LET L == repos[a]
      env == [L EXCEPT !.env = @ \/ pullFails \/ gitErr # "none"]
      pulled == IF L.pc = "mwPull"
                THEN mergeWorktreePull(env, remote, pullFails, gitErr)
                ELSE mergeBranchPull(env, remote, pullFails)
  IN /\ L.pc \in {"mwPull", "mbPull"}
     /\ L.pc = "mbPull" => gitErr = "none"
     /\ repos' = [repos EXCEPT ![a] = Settle(pulled, commentOk)]
     /\ UNCHANGED <<remote, conflictLevel>>

(***************************************************************************)
(* The runner's message poll (src/src/runner.ts)                           *)
(*                                                                         *)
(* Messages are held by the LOTA API, which stamps each with its creation  *)
(* time.  What handleMessage does with a message is in the runner section  *)
(* above (MessageStart); here a message counts as delivered when           *)
(* handleMessage is called with it.                                        *)
(***************************************************************************)

MaxMessages == 2

MaxTime == 2

MaxDeliveries == 2

NoMessage == [sent |-> FALSE, to |-> "", created_at |-> 0]

\* mloop.pc: "sleep" | "fetch" (awaiting fetchMessages) | "handle" (in the
\* loop over the fetched messages) | "down" (no daemon process)
MsgIdle == [pc |-> "sleep", since |-> 0, batch |-> <<>>]

\* The API's answer to GET /api/messages?agentId=..&since=..: the messages
\* to that agent created after `since`.
ApiMessages(agentId, since) ==
  {m \in 1..MaxMessages :
     inbox[m].sent /\ inbox[m].to = agentId /\ inbox[m].created_at > since}

\* fetchMessages, called with the value lastMessageTimestamp had then.
fetchMessages(since) == ApiMessages(AGENT_NAME, since)

\* The answer as a list, in the order of the ids.
RECURSIVE InOrder(_)
InOrder(ms) ==
  IF ms = {} THEN <<>>
  ELSE LET m == CHOOSE x \in ms : \A y \in ms : x <= y
       IN <<m>> \o InOrder(ms \ {m})

\* The clock advances.
Tick ==
  /\ clock < MaxTime
  /\ clock' = clock + 1
  /\ UNCHANGED <<inbox, lastMessageTimestamp, delivered, everDelivered, mloop>>

\* Somebody sends a message; the API stamps it with the time.
SendMessage(m, to) ==
  /\ ~inbox[m].sent
  /\ inbox' = [inbox EXCEPT ![m] = [sent |-> TRUE, to |-> to, created_at |-> clock]]
  /\ UNCHANGED <<clock, lastMessageTimestamp, delivered, everDelivered, mloop>>

\* The daemon process ends, at any point.
ProcessExit ==
  /\ mloop.pc # "down"
  /\ mloop' = [MsgIdle EXCEPT !.pc = "down"]
  /\ UNCHANGED <<clock, inbox, lastMessageTimestamp, delivered, everDelivered>>

\* main of a new process: lastMessageTimestamp = new Date().toISOString().
MainStart ==
  /\ mloop.pc = "down"
  /\ lastMessageTimestamp' = clock
  /\ delivered' = [m \in 1..MaxMessages |-> 0]
  /\ mloop' = MsgIdle
  /\ UNCHANGED <<clock, inbox, everDelivered>>

\* pollForMessages up to its await of fetchMessages.
PollMessagesStart ==
  /\ mloop.pc = "sleep"
  /\ mloop' = [pc |-> "fetch", since |-> lastMessageTimestamp, batch |-> <<>>]
  /\ UNCHANGED <<clock, inbox, lastMessageTimestamp, delivered, everDelivered>>

\* The answer of fetchMessages arrives, or the request fails and
\* pollForMessages logs the error.
PollMessagesFetched(fetchFails) ==
  LET batch == IF fetchFails THEN <<>> ELSE InOrder(fetchMessages(mloop.since))
  IN /\ mloop.pc = "fetch"
     /\ mloop' = [pc |-> IF batch = <<>> THEN "sleep" ELSE "handle",
                  since |-> mloop.since, batch |-> batch]
     /\ UNCHANGED <<clock, inbox, lastMessageTimestamp, delivered, everDelivered>>

NewTimestamp_Always(last, created_at) == created_at

\* if (msg.created_at > lastMessageTimestamp) lastMessageTimestamp = msg.created_at
NewTimestamp(last, created_at) == IF created_at > last THEN created_at ELSE last

\* One turn of the loop of pollForMessages: handleMessage(msg), then the
\* timestamp moves up to msg.created_at.
PollMessagesHandle ==
  LET m == Head(mloop.batch)
      rest == Tail(mloop.batch)
  IN /\ mloop.pc = "handle"
     /\ delivered[m] < MaxDeliveries
     /\ delivered' = [delivered EXCEPT ![m] = @ + 1]
     /\ everDelivered' = everDelivered \cup {m}
     /\ lastMessageTimestamp' =
          NewTimestamp(lastMessageTimestamp, inbox[m].created_at)
     /\ mloop' = [pc |-> IF rest = <<>> THEN "sleep" ELSE "handle",
                  since |-> mloop.since, batch |-> rest]
     /\ UNCHANGED <<clock, inbox>>

(***************************************************************************)
(* The runner's main loop and graceful shutdown (src/src/runner.ts)        *)
(*                                                                         *)
(* One daemon process: main runs poll cycles, each awaiting the API and    *)
(* the subprocess in turn; the signal handler and its two timers run       *)
(* between those awaits.  Time is counted in periods of the handler's      *)
(* check interval.                                                         *)
(***************************************************************************)

GRACE_MS == 30000

CHECK_MS == 500

MaxSignals == 2

MaxSpawns == 2

MaxBatch == 2

MaxCycles == 2

\* mainLoop.pc: "test" (the while condition) | "messages" (awaiting
\* fetchMessages) | "fetchTask" (handleMessage awaiting fetchTask) |
\* "tasks" (awaiting fetchAssignedTasks) | "status" (executeTask awaiting
\* updateTaskStatus) | "child" (awaiting spawnClaude) | "notify" (awaiting
\* sendMessage after a failure) | "sleep" | "returned" (the loop has ended).
\* caller: who called the executeTask in progress; pending: start-task
\* messages of the batch not handled yet.
MainAtTest == [pc |-> "test", caller |-> "", pending |-> 0, cycles |-> 0]

\* currentProcess: 0 for null, else the index of the child in `children`.
NoSub == [currentProcess |-> 0, children |-> <<>>]

\* handler.pc: "idle" | "grace" (awaiting the grace promise) | "exited"
\* (process.exit was called).
HandlerIdle == [pc |-> "idle", elapsed |-> 0, graceWaits |-> 0, signals |-> 0]

Exited == handler.pc = "exited"

\* currentProcess.kill(sig)
Kill(S, sig) ==
  [S EXCEPT !.children[S.currentProcess].signals = Append(@, sig)]

\* if (shuttingDown) return;
ShutdownReturnsEarly_Never == FALSE

ShutdownReturnsEarly == shuttingDown

\* wakeUp(): a pending sleep resolves; main goes on after the handler's
\* synchronous part.
wakeUp(M) == IF M.pc = "sleep" THEN [M EXCEPT !.pc = "test"] ELSE M

\* shutdown(signal), up to its await of the grace promise or to
\* process.exit(0).
Shutdown ==
  /\ ~Exited
  /\ handler.signals < MaxSignals
  /\ IF ShutdownReturnsEarly
       THEN /\ handler' = [handler EXCEPT !.signals = @ + 1]
            /\ UNCHANGED <<shuttingDown, mainLoop, sub>>
       ELSE /\ shuttingDown' = TRUE
            /\ mainLoop' = wakeUp(mainLoop)
            /\ IF sub.currentProcess # 0
                 THEN /\ sub' = Kill(sub, "SIGTERM")
                      /\ handler' = [pc |-> "grace", elapsed |-> 0,
                                     graceWaits |-> handler.graceWaits + 1,
                                     signals |-> handler.signals + 1]
                 ELSE /\ sub' = sub
                      /\ handler' = [handler EXCEPT !.pc = "exited",
                                                    !.signals = @ + 1]

\* One period of the check interval passes in the grace wait: the interval
\* resolves the promise when currentProcess is null; at GRACE_MS the timeout
\* kills a remaining currentProcess and resolves it.  Then process.exit(0).
GraceCheck ==
  LET t == handler.elapsed + CHECK_MS
  IN /\ handler.pc = "grace"
     /\ IF sub.currentProcess = 0
          THEN /\ handler' = [handler EXCEPT !.pc = "exited", !.elapsed = t]
               /\ sub' = sub
          ELSE IF t >= GRACE_MS
          THEN /\ handler' = [handler EXCEPT !.pc = "exited", !.elapsed = t]
               /\ sub' = Kill(sub, "SIGKILL")
          ELSE /\ handler' = [handler EXCEPT !.elapsed = t]
               /\ sub' = sub
     /\ UNCHANGED <<shuttingDown, mainLoop>>

\* while (!shuttingDown): the loop ends, or a poll cycle starts with
\* pollForMessages up to its await of fetchMessages.
MainTest ==
  /\ ~Exited
  /\ mainLoop.pc = "test"
  /\ IF shuttingDown
       THEN mainLoop' = [mainLoop EXCEPT !.pc = "returned"]
       ELSE /\ mainLoop.cycles < MaxCycles
            /\ mainLoop' = [mainLoop EXCEPT !.pc = "messages", !.cycles = @ + 1]
  /\ UNCHANGED <<shuttingDown, sub, handler>>

NextMessage_TasksFirst(M, left) ==
  [M EXCEPT !.pc = "tasks", !.pending = left, !.caller = ""]

\* After a message of the batch: the next one, or pollForTasks up to its
\* await of fetchAssignedTasks (currentTask is null here).
NextMessage(M, left) ==
  [M EXCEPT !.pc = IF left > 0 THEN "fetchTask" ELSE "tasks",
            !.pending = left, !.caller = ""]

\* The answer of fetchMessages: `starts` messages asking to start a task
\* (a failed fetch is logged and counts as none).
MainMessagesFetched(starts) ==
  /\ ~Exited
  /\ mainLoop.pc = "messages"
  /\ mainLoop' = NextMessage(mainLoop, starts)
  /\ UNCHANGED <<shuttingDown, sub, handler>>

\* handleMessage from the answer of fetchTask: executeTask(task) up to its
\* await of updateTaskStatus, or the message is done with.
MainTaskFetched(accepted) ==
  /\ ~Exited
  /\ mainLoop.pc = "fetchTask"
  /\ mainLoop' = IF accepted
                   THEN [mainLoop EXCEPT !.pc = "status", !.caller = "message"]
                   ELSE NextMessage(mainLoop, mainLoop.pending - 1)
  /\ UNCHANGED <<shuttingDown, sub, handler>>

\* pollForTasks from the answer of fetchAssignedTasks: executeTask for the
\* first unprocessed task up to its await of updateTaskStatus, or nothing
\* to do and main sleeps.
MainTasksFetched(found) ==
  /\ ~Exited
  /\ mainLoop.pc = "tasks"
  /\ mainLoop' = IF found
                   THEN [mainLoop EXCEPT !.pc = "status", !.caller = "poll"]
                   ELSE [mainLoop EXCEPT !.pc = "sleep"]
  /\ UNCHANGED <<shuttingDown, sub, handler>>

\* executeTask after updateTaskStatus: spawnClaude spawns the child and
\* sets currentProcess.
MainSpawn ==
  /\ ~Exited
  /\ mainLoop.pc = "status"
  /\ Len(sub.children) < MaxSpawns
  /\ sub' = [currentProcess |-> Len(sub.children) + 1,
             children |-> Append(sub.children,
                                 [alive |-> TRUE, signals |-> <<>>,
                                  afterSignal |-> shuttingDown])]
  /\ mainLoop' = [mainLoop EXCEPT !.pc = "child"]
  /\ UNCHANGED <<shuttingDown, handler>>

\* executeTask returns to its caller: the loop over the messages goes on,
\* or pollForTasks breaks and the cycle ends in the sleep.
ExecuteReturns(M) ==
  IF M.caller = "message" THEN NextMessage(M, M.pending - 1)
  ELSE [M EXCEPT !.pc = "sleep", !.caller = ""]

\* child.on("close"): currentProcess = null and executeTask goes on, to its
\* return or to the await of the failure notification.
MainChildClose(code, delegated) ==
  /\ ~Exited
  /\ mainLoop.pc = "child"
  /\ sub' = [sub EXCEPT !.currentProcess = 0,
                        !.children[sub.currentProcess].alive = FALSE]
  /\ mainLoop' = IF code # 0 /\ delegated
                   THEN [mainLoop EXCEPT !.pc = "notify"]
                   ELSE ExecuteReturns(mainLoop)
  /\ UNCHANGED <<shuttingDown, handler>>

\* sendMessage to the delegating party returns or throws.
MainNotified ==
  /\ ~Exited
  /\ mainLoop.pc = "notify"
  /\ mainLoop' = ExecuteReturns(mainLoop)
  /\ UNCHANGED <<shuttingDown, sub, handler>>

\* The sleep ends by its timer or by a webhook's wakeUp.
MainSleepEnds ==
  /\ ~Exited
  /\ mainLoop.pc = "sleep"
  /\ mainLoop' = wakeUp(mainLoop)
  /\ UNCHANGED <<shuttingDown, sub, handler>>

(***************************************************************************)
(* The worktree slots of one shared workspace (src/src/worktree.ts)        *)
(*                                                                         *)
(* The workspace holds one worktree directory per agent name,              *)
(* .worktrees/<agentName>, and the task branches task-<taskId>-<agentName>.*)
(* A branch is named here by its pair <<taskId, agentName>>.               *)
(***************************************************************************)

MaxTasks == 3

NoCall == [op |-> "none", agent |-> "", task |-> 0, ok |-> TRUE]

\* worktrees[a]: the task whose branch is checked out in .worktrees/<a>, 0
\* when the directory is no worktree; live: the agents whose subprocess is
\* running in their worktree; run[a]: the task of that run, else 0.
InitTree == [worktrees |-> [a \in Agents |-> 0], branches |-> {},
             live |-> {}, run |-> [a \in Agents |-> 0], last |-> NoCall]

\* git worktree remove --force <path>
worktreeRemoveAt(T, a) == [T EXCEPT !.worktrees[a] = 0]

\* git branch -D <branch>: refused while a worktree has the branch checked
\* out.
deleteBranchNamed(T, b) ==
  IF \E a \in Agents : T.worktrees[a] = b[1] /\ a = b[2] THEN T
  ELSE [T EXCEPT !.branches = @ \ {b}]

\* git worktree add -b <branch> <path>: refused when the branch exists or
\* the path is a worktree.
worktreeAddAt(T, a, b) ==
  [T EXCEPT !.worktrees[a] = b[1], !.branches = @ \cup {b}]

WorktreeAddOk(T, a, b) == T.worktrees[a] = 0 /\ b \notin T.branches

\* createWorktree(workspace, agentName, taskId) on the shared workspace: the
\* slot's worktree and the branch of THIS task are removed, then the
\* worktree is added.
createWorktreeAt(T, agentName, taskId, create) ==
  LET branch == <<taskId, agentName>>
      cleared == deleteBranchNamed(worktreeRemoveAt(T, agentName), branch)
      ok == create = "ok" /\ WorktreeAddOk(cleared, agentName, branch)
      call == [op |-> "createWorktree", agent |-> agentName, task |-> taskId,
               ok |-> ok]
  IN IF create \in {"notRepo", "mkdir"} THEN [T EXCEPT !.last = call]
     ELSE IF ok THEN [worktreeAddAt(cleared, agentName, branch) EXCEPT !.last = call]
     ELSE [cleared EXCEPT !.last = call]

\* cleanupWorktree(workspace, agentName, branch)
cleanupWorktreeAt(T, agentName, taskId) ==
  [deleteBranchNamed(worktreeRemoveAt(T, agentName), <<taskId, agentName>>)
     EXCEPT !.last = [op |-> "cleanupWorktree", agent |-> agentName,
                      task |-> taskId, ok |-> TRUE]]

\* A call of createWorktree by the agent's daemon for a task: the agent's
\* subprocess then runs in the worktree.
CreateWorktreeCall(a, t, create) ==
  /\ a \notin tree.live
  /\ tree' = LET made == createWorktreeAt(tree, a, t, create)
             IN IF made.last.ok
                THEN [made EXCEPT !.live = @ \cup {a}, !.run[a] = t]
                ELSE made

\* The subprocess of the agent ends; handlePostCompletion calls
\* cleanupWorktree for the run's branch, or keeps worktree and branch (a
\* conflict); or the daemon dies with the subprocess and nothing is cleaned.
SubprocessEnds(a, cleanup) ==
  /\ a \in tree.live
  /\ tree' = LET ended == [tree EXCEPT !.live = @ \ {a}, !.run[a] = 0]
             IN IF cleanup
                THEN cleanupWorktreeAt(ended, a, tree.run[a])
                ELSE [ended EXCEPT !.last = NoCall]

\* cleanStaleWorktrees(workspace): git worktree prune drops the entries
\* whose directory is gone; then every directory under .worktrees is
\* removed as a worktree.
cleanStaleWorktreesAt(T, caller) ==
  [T EXCEPT !.worktrees = [a \in Agents |-> 0],
            !.last = [op |-> "cleanStaleWorktrees", agent |-> caller,
                      task |-> 0, ok |-> TRUE]]

\* The daemon of an agent starts after a crash and its recovery cleans the
\* stale worktrees of the workspace.
StaleCleanupCall(a) ==
  /\ a \notin tree.live
  /\ tree' = cleanStaleWorktreesAt(tree, a)

\* Any other call of cleanupWorktree for an agent that is not running.
CleanupSlotCall(a, t) ==
  /\ a \notin tree.live
  /\ tree' = cleanupWorktreeAt(tree, a, t)

(***************************************************************************)
(* sleep and wakeUp (src/src/runner.ts)                                    *)
(*                                                                         *)
(* Each call of sleep makes a promise and a timer of its own; the sleeps   *)
(* of a process are numbered in the order of their calls.  Time is counted *)
(* in ticks; the poll interval is PollTicks of them.                       *)
(***************************************************************************)

MaxSleeps == 3

MaxWebhooks == 2

PollTicks == 2

NoTimer == 0 - 1

\* sleeping: the sleep main awaits, 0 when main is in a poll cycle;
\* sleepResolve: the sleep whose resolve the variable holds, 0 for null;
\* timers[s]: ticks until the timer of sleep s fires, NoTimer when it has
\* fired or was never set.
InitNap == [sleeping |-> 0, sleepResolve |-> 0, sleeps |-> 0, webhooks |-> 0,
            timers |-> [s \in 1..MaxSleeps |-> NoTimer]]

\* resolve() of the promise of sleep s: main goes on when it awaits that
\* promise; a promise resolved before stays as it is.
Resolve(N, s) == IF N.sleeping = s THEN [N EXCEPT !.sleeping = 0] ELSE N

\* The poll cycle has ended: main calls sleep(config.pollInterval).
Sleep ==
  LET s == nap.sleeps + 1
  IN /\ nap.sleeping = 0
     /\ nap.sleeps < MaxSleeps
     /\ nap' = [nap EXCEPT !.sleeping = s, !.sleepResolve = s, !.sleeps = s,
                           !.timers[s] = PollTicks]

\* A tick passes; a timer that is due fires first.
SleepTick ==
  /\ \E s \in 1..MaxSleeps : nap.timers[s] > 0
  /\ \A s \in 1..MaxSleeps : nap.timers[s] # 0
  /\ nap' = [nap EXCEPT !.timers = [s \in 1..MaxSleeps |->
                                      IF @[s] > 0 THEN @[s] - 1 ELSE @[s]]]

\* The callback of the timer of sleep s: sleepResolve = null; resolve().
SleepTimeout(s) ==
  /\ nap.timers[s] = 0
  /\ nap' = [Resolve(nap, s) EXCEPT !.sleepResolve = 0, !.timers[s] = NoTimer]

\* wakeUp(): resolves what sleepResolve holds, if anything.
wakeUpNap(N) ==
  IF N.sleepResolve # 0
  THEN [Resolve(N, N.sleepResolve) EXCEPT !.sleepResolve = 0]
  ELSE N

\* POST /webhook: the answer is sent, then wakeUp().
Webhook ==
  /\ nap.webhooks < MaxWebhooks
  /\ nap' = [wakeUpNap(nap) EXCEPT !.webhooks = @ + 1]

(***************************************************************************)
(* Concurrent updateStatus calls on one issue (part_004)                   *)
(*                                                                         *)
(* Each call is a handler of its own: swapLabels awaits the GET of the     *)
(* issue, then the PUT of the labels; the tracker serves the requests of   *)
(* different calls in any order.                                           *)
(***************************************************************************)

Callers == {"c1", "c2", "c3"}

SwapStatuses == {"in-progress", "completed", "failed"}

\* calls[c].pc: "idle" | "read" (the GET has answered, `kept` is built) |
\* "put" (the PUT has landed; the PATCH that closes is still to come) | "done"
NoCallYet == [pc |-> "idle", status |-> "", seen |-> <<>>]

\* The issue as createTask makes it, with its one status label.
InitSwap ==
  [labels |-> <<LABEL_TYPE, AgentLabel(AGENT_NAME), StatusLabel("assigned")>>,
   open |-> TRUE, puts |-> 0, lastPut |-> "",
   calls |-> [c \in Callers |-> NoCallYet]]

PutLabels_Post(current, labels) ==
  current \o SelectSeq(labels, LAMBDA l : l \notin Range(current))

\* PUT /repos/<repo>/issues/<n>/labels: the issue's labels become the list
\* sent.
PutLabels(current, labels) == labels

\* updateStatus(id, status) up to the answer of swapLabels' GET.
SwapRead(c, status) ==
  /\ swap.calls[c].pc = "idle"
  /\ swap' = [swap EXCEPT !.calls[c] = [pc |-> "read", status |-> status,
                                        seen |-> swap.labels]]

\* The PUT of swapLabels lands.
SwapPut(c) ==
  LET call == swap.calls[c]
      kept == SwapKept(call.seen, LABEL_STATUS, StatusLabel(call.status))
  IN /\ call.pc = "read"
     /\ swap' = [swap EXCEPT
                   !.labels = PutLabels(@, kept),
                   !.puts = @ + 1,
                   !.lastPut = call.status,
                   !.calls[c].pc = IF call.status = "completed" THEN "put"
                                   ELSE "done"]

\* The PATCH { state: "closed" } of a call with status completed lands.
SwapClose(c) ==
  /\ swap.calls[c].pc = "put"
  /\ swap' = [swap EXCEPT !.open = FALSE, !.calls[c].pc = "done"]

(***************************************************************************)
(* Specifications                                                          *)
(***************************************************************************)


MaxIssues == 2

NoIssues == [n \in 1..MaxIssues |-> NoIssue]

\* Every component before its first step.
InitIdle ==
  /\ ghPc = "idle"
  /\ ghAttempt = 0
  /\ ghFetches = 0
  /\ ghLastError = NoError
  /\ ghThrown = NoError
  /\ ghResps = <<>>
  /\ ghReturned = 0
  /\ pmPc = "idle"
  /\ pmBody = <<>>
  /\ pmType = "plan"
  /\ pmResult = Null
  /\ pmBodyMeta = EmptyObj
  /\ issues = NoIssues
  /\ lastOp = NoOp
  /\ currentTask = NoTask
  /\ currentProcess = NoTask
  /\ processedTaskIds = {}
  /\ exec = [n \in 1..MaxIssues |-> NoExec]
  /\ alive = {}
  /\ spawned = [n \in 1..MaxIssues |-> 0]
  /\ statusSent = [n \in 1..MaxIssues |-> 0]
  /\ loop = Asleep
  /\ remote = {}
  /\ conflictLevel = "none"
  /\ repos = [a \in Agents |-> InitRepo]
  /\ clock = 0
  /\ inbox = [m \in 1..MaxMessages |-> NoMessage]
  /\ lastMessageTimestamp = 0
  /\ delivered = [m \in 1..MaxMessages |-> 0]
  /\ everDelivered = {}
  /\ mloop = MsgIdle
  /\ shuttingDown = FALSE
  /\ mainLoop = MainAtTest
  /\ sub = NoSub
  /\ handler = HandlerIdle
  /\ age = [n \in 1..MaxIssues |-> 0]
  /\ tree = InitTree
  /\ nap = InitNap
  /\ swap = InitSwap

\* The parsers are handed any body up to MaxBodyLen and any metadata type.
InitCodec ==
  /\ ghPc = "idle"
  /\ ghAttempt = 0
  /\ ghFetches = 0
  /\ ghLastError = NoError
  /\ ghThrown = NoError
  /\ ghResps = <<>>
  /\ ghReturned = 0
  /\ pmPc = "input"
  /\ pmBody \in CodecBodies
  /\ pmType \in MetaTypes
  /\ pmResult = Null
  /\ pmBodyMeta = EmptyObj
  /\ issues = NoIssues
  /\ lastOp = NoOp
  /\ currentTask = NoTask
  /\ currentProcess = NoTask
  /\ processedTaskIds = {}
  /\ exec = [n \in 1..MaxIssues |-> NoExec]
  /\ alive = {}
  /\ spawned = [n \in 1..MaxIssues |-> 0]
  /\ statusSent = [n \in 1..MaxIssues |-> 0]
  /\ loop = Asleep
  /\ remote = {}
  /\ conflictLevel = "none"
  /\ repos = [a \in Agents |-> InitRepo]
  /\ clock = 0
  /\ inbox = [m \in 1..MaxMessages |-> NoMessage]
  /\ lastMessageTimestamp = 0
  /\ delivered = [m \in 1..MaxMessages |-> 0]
  /\ everDelivered = {}
  /\ mloop = MsgIdle
  /\ shuttingDown = FALSE
  /\ mainLoop = MainAtTest
  /\ sub = NoSub
  /\ handler = HandlerIdle
  /\ age = [n \in 1..MaxIssues |-> 0]
  /\ tree = InitTree
  /\ nap = InitNap
  /\ swap = InitSwap

TxtWorkspace == <<W("ws")>>

PlanA == [goals |-> <<<<W("g1")>>>>, affected_files |-> <<<<W("f1")>>>>,
          effort |-> <<W("low")>>, notes |-> <<W("n1")>>]
PlanB == [goals |-> <<<<W("g2")>>>>, affected_files |-> UndefinedArr,
          effort |-> Undefined, notes |-> Undefined]
\* Notes that quote the end of an HTML comment after a brace: "...} -->".
PlanC == [goals |-> <<<<W("g1")>>>>, affected_files |-> <<>>,
          effort |-> <<W("low")>>, notes |-> <<W("n2"), CloseLex>>]
PlanInputs == {PlanA, PlanB, PlanC}

\* A plan comment as a version before META_VERSION wrote it.
LegacyPlanComment ==
  <<Lit, OpenLex("legacy", "plan"), JsonLex(PlanData(PlanB)), CloseLex>>

CommentInputs == {<<W("note")>>, LegacyPlanComment}

\* A step of the task store leaves the other components alone.
StoreOnly == UNCHANGED <<ghVars, codecVars, runnerVars, gitVars, daemonVars>>

\* ---- Spec: several tasks; create, status updates, lists, startup recovery ----

CreateTaskAny ==
  \E assign \in {"", OtherAgent}, failAt \in 0..1 :
    createTask(MaxIssues, assign, "", <<>>, <<>>, failAt) /\ StoreOnly

UpdateStatusAny ==
  \E id \in DOMAIN issues, s \in Statuses, failAt \in 0..3 :
    updateStatus(id, s, failAt) /\ StoreOnly

GetTasksAny ==
  \E s \in Statuses \cup {""}, failAt \in 0..1 : getTasks(s, failAt) /\ StoreOnly

RecoverAny ==
  \E listFails \in BOOLEAN, detailFails \in SUBSET (DOMAIN issues),
     statusFailAt \in 0..2, commentFails \in BOOLEAN :
    recoverStaleTasks(listFails, detailFails, statusFailAt, commentFails)
    /\ StoreOnly

NextStore ==
  \/ CreateTaskAny
  \/ UpdateStatusAny
  \/ GetTasksAny
  \/ RecoverAny

Spec == InitIdle /\ [][NextStore]_vars

\* ---- SpecLabels: one task; its label set under status updates and
\* ---- under label edits made by hand ----

CreateLabelled ==
  \E assign \in {"", OtherAgent}, priority \in {"", "high"}, failAt \in 0..1 :
    createTask(1, assign, priority, <<>>, <<>>, failAt) /\ StoreOnly

UpdateStatusOne ==
  \E s \in Statuses, failAt \in 0..3 : updateStatus(1, s, failAt) /\ StoreOnly

AddLabelOne == \E s \in Statuses : TrackerAddLabel(1, s) /\ StoreOnly

RemoveLabelOne == \E s \in Statuses : TrackerRemoveLabel(1, s) /\ StoreOnly

NextLabels ==
  \/ CreateLabelled
  \/ UpdateStatusOne
  \/ AddLabelOne
  \/ RemoveLabelOne

SpecLabels == InitIdle /\ [][NextLabels]_vars

\* ---- SpecTask: one task; its plan, comments and completion ----

CreateOneTask ==
  \E workspace \in {<<>>, TxtWorkspace}, failAt \in 0..1 :
    createTask(1, "", "", <<>>, workspace, failAt) /\ StoreOnly

SetStatusOne ==
  \E s \in Statuses, failAt \in 0..3 : updateStatus(1, s, failAt) /\ StoreOnly

SavePlanOne ==
  \E plan \in PlanInputs, failAt \in 0..1 : savePlan(1, plan, failAt) /\ StoreOnly

AddCommentOne ==
  \E c \in CommentInputs, failAt \in 0..1 : addComment(1, c, failAt) /\ StoreOnly

CompleteOne ==
  \E failAt \in 0..4 : completeTask(1, <<W("done")>>, failAt) /\ StoreOnly

GetTaskOne == \E failAt \in 0..2 : getTask(1, failAt) /\ StoreOnly

NextTask ==
  \/ CreateOneTask
  \/ SetStatusOne
  \/ SavePlanOne
  \/ AddCommentOne
  \/ CompleteOne
  \/ GetTaskOne

SpecTask == InitIdle /\ [][NextTask]_vars

\* ---- SpecGh: one tracker request after the other ----

SpecGh == InitIdle /\ [][NextGh]_vars

\* ---- SpecCodec: the parsers applied to every body up to MaxBodyLen ----

SpecCodec == InitCodec /\ [][NextCodec]_vars

\* ---- SpecRunner: one daemon process after the other over the task
\* ---- store; tasks are created and their status set from outside ----

RunnerOnly == UNCHANGED <<ghVars, codecVars, gitVars, daemonVars>>

ExternalStatusAny ==
  \E id \in DOMAIN issues, s \in Statuses : ExternalStatus(id, s) /\ RunnerOnly

ExecuteCallAny == \E id \in DOMAIN issues : ExecuteCall(id) /\ RunnerOnly

ExecuteSpawnAny ==
  \E id \in DOMAIN issues, failAt \in 0..2, spawnOk \in BOOLEAN :
    ExecuteSpawn(id, failAt, spawnOk) /\ RunnerOnly

ChildCloseAny ==
  \E id \in DOMAIN issues, code \in {0, 1} : ChildClose(id, code) /\ RunnerOnly

ChildErrorAny == \E id \in DOMAIN issues : ChildError(id) /\ RunnerOnly

PollStartAny == PollStart /\ RunnerOnly

PollFetchedAny == \E fetchFails \in BOOLEAN : PollFetched(fetchFails) /\ RunnerOnly

MessageStartAny ==
  \E id \in DOMAIN issues, fetchFails \in BOOLEAN :
    MessageStart(id, fetchFails) /\ RunnerOnly

\* The failures of the recoveries' own requests are the subject of Spec;
\* here a recovery either gets its list or does not.
RuntimeRecoveryAny ==
  \E listFails \in BOOLEAN : RuntimeRecovery(listFails, 0, FALSE) /\ RunnerOnly

DaemonStartAny ==
  \E listFails \in BOOLEAN : DaemonStart(listFails, {}, 0, FALSE) /\ RunnerOnly

NextRunner ==
  \/ CreateTaskAny
  \/ ExternalStatusAny
  \/ ExecuteCallAny
  \/ ExecuteSpawnAny
  \/ ChildCloseAny
  \/ ChildErrorAny
  \/ PollStartAny
  \/ PollFetchedAny
  \/ MessageStartAny
  \/ RuntimeRecoveryAny
  \/ DaemonStartAny

SpecRunner == InitIdle /\ [][NextRunner]_vars

\* The daemon keeps polling: the loop's timer fires, its fetch is answered,
\* an accepted execution goes on to spawn, and a subprocess ends.
PollFetchedOk == PollFetched(FALSE) /\ RunnerOnly

RunnerFairness ==
  /\ WF_vars(PollStartAny)
  /\ WF_vars(PollFetchedOk)
  /\ WF_vars(ExecuteSpawnAny)
  /\ WF_vars(ChildCloseAny)
  /\ WF_vars(ChildErrorAny)

SpecRunnerFair == SpecRunner /\ RunnerFairness

\* ---- runClaude and merge-back: two agents, their clones, one remote ----

MergeOnly == UNCHANGED <<ghVars, codecVars, storeVars, runnerVars, daemonVars>>

RunClaudeAny ==
  /\ \E a \in Agents : \E phaseOk, isRoot, useWorktree \in BOOLEAN :
       \E create \in CreateOutcomes :
         runClaude(a, phaseOk, isRoot, useWorktree, create)
  /\ MergeOnly

SubprocessCommitAny ==
  /\ \E a \in Agents : \E level \in ConflictLevels : SubprocessCommit(a, level)
  /\ MergeOnly

ChildProcessErrorAny ==
  /\ \E a \in Agents : ChildProcessError(a)
  /\ MergeOnly

ChildProcessCloseAny ==
  /\ \E a \in Agents : \E code \in ExitCodes : \E gitErr \in GitErrors :
       \E isRoot, dirty, pullFails, commentOk \in BOOLEAN :
         ChildProcessClose(a, code, isRoot, dirty, pullFails, gitErr, commentOk)
  /\ MergeOnly

PushAny ==
  /\ \E a \in Agents : \E netFail, commentOk \in BOOLEAN :
       Push(a, netFail, commentOk)
  /\ MergeOnly

PullAny ==
  /\ \E a \in Agents : \E gitErr \in {"none", "merge"} :
       \E pullFails, commentOk \in BOOLEAN : Pull(a, pullFails, gitErr, commentOk)
  /\ MergeOnly

NextMerge ==
  \/ RunClaudeAny
  \/ SubprocessCommitAny
  \/ ChildProcessErrorAny
  \/ ChildProcessCloseAny
  \/ PushAny
  \/ PullAny

SpecMerge == InitIdle /\ [][NextMerge]_vars

\* ---- the same, with cleanupWorktree also called from outside a run ----

CleanupWorktreeAny ==
  /\ \E a \in Agents : \E variant \in {"git", "exec"} : \E rmFails \in BOOLEAN :
       CleanupWorktreeCall(a, variant, rmFails)
  /\ MergeOnly

NextCleanup ==
  \/ RunClaudeAny
  \/ SubprocessCommitAny
  \/ ChildProcessErrorAny
  \/ ChildProcessCloseAny
  \/ PushAny
  \/ PullAny
  \/ CleanupWorktreeAny

SpecCleanup == InitIdle /\ [][NextCleanup]_vars

\* ---- the message poll of one agent's runner, over its lifetimes ----

MessagesOnly == UNCHANGED <<ghVars, codecVars, storeVars, runnerVars, gitVars, sdVars, age, tree, nap, swap>>

TickAny == Tick /\ MessagesOnly

SendMessageAny ==
  /\ \E m \in 1..MaxMessages : \E to \in {AGENT_NAME, OtherAgent} : SendMessage(m, to)
  /\ MessagesOnly

ProcessExitAny == ProcessExit /\ MessagesOnly

MainStartAny == MainStart /\ MessagesOnly

PollMessagesStartAny == PollMessagesStart /\ MessagesOnly

PollMessagesFetchedAny ==
  /\ \E fetchFails \in BOOLEAN : PollMessagesFetched(fetchFails)
  /\ MessagesOnly

PollMessagesHandleAny == PollMessagesHandle /\ MessagesOnly

NextMessages ==
  \/ TickAny
  \/ SendMessageAny
  \/ ProcessExitAny
  \/ MainStartAny
  \/ PollMessagesStartAny
  \/ PollMessagesFetchedAny
  \/ PollMessagesHandleAny

SpecMessages == InitIdle /\ [][NextMessages]_vars

\* ---- one daemon process from its poll loop to its exit ----

ShutdownOnly == UNCHANGED <<ghVars, codecVars, storeVars, runnerVars, gitVars, msgVars, age, tree, nap, swap>>

ShutdownAny == Shutdown /\ ShutdownOnly

GraceCheckAny == GraceCheck /\ ShutdownOnly

MainTestAny == MainTest /\ ShutdownOnly

MainMessagesFetchedAny ==
  /\ \E starts \in 0..MaxBatch : MainMessagesFetched(starts)
  /\ ShutdownOnly

MainTaskFetchedAny ==
  /\ \E accepted \in BOOLEAN : MainTaskFetched(accepted)
  /\ ShutdownOnly

MainTasksFetchedAny ==
  /\ \E found \in BOOLEAN : MainTasksFetched(found)
  /\ ShutdownOnly

MainSpawnAny == MainSpawn /\ ShutdownOnly

MainChildCloseAny ==
  /\ \E code \in ExitCodes : \E delegated \in BOOLEAN : MainChildClose(code, delegated)
  /\ ShutdownOnly

MainNotifiedAny == MainNotified /\ ShutdownOnly

MainSleepEndsAny == MainSleepEnds /\ ShutdownOnly

NextShutdown ==
  \/ ShutdownAny
  \/ GraceCheckAny
  \/ MainTestAny
  \/ MainMessagesFetchedAny
  \/ MainTaskFetchedAny
  \/ MainTasksFetchedAny
  \/ MainSpawnAny
  \/ MainChildCloseAny
  \/ MainNotifiedAny
  \/ MainSleepEndsAny

SpecShutdown == InitIdle /\ [][NextShutdown]_vars

\* ---- tasks that grow old in the tracker, and runtime recovery ----

MaxAge == 5

AgedOnly == UNCHANGED <<ghVars, codecVars, runnerVars, gitVars, msgVars, sdVars, tree, nap, swap>>

\* The tracker stamps updated_at on every issue a request changes.
Stamped ==
  age' = [n \in DOMAIN age |-> IF issues'[n] # issues[n] THEN 0 ELSE age[n]]

CreateTaskAged ==
  /\ \E assign \in {"", OtherAgent} : createTask(MaxIssues, assign, "", <<>>, <<>>, 0)
  /\ Stamped
  /\ AgedOnly

UpdateStatusAged ==
  /\ \E id \in 1..MaxIssues : \E s \in {"in-progress", "assigned"} :
       updateStatus(id, s, 0)
  /\ Stamped
  /\ AgedOnly

\* A minute passes.
MinutePasses ==
  /\ \E n \in DOMAIN age : age[n] < MaxAge
  /\ age' = [n \in DOMAIN age |-> IF age[n] < MaxAge THEN age[n] + 1 ELSE age[n]]
  /\ UNCHANGED storeVars
  /\ AgedOnly

RuntimeRecoveryAged ==
  /\ \E listFails \in BOOLEAN : checkRuntimeStaleTasks(listFails, 0, FALSE)
  /\ Stamped
  /\ AgedOnly

NextAged ==
  \/ CreateTaskAged
  \/ UpdateStatusAged
  \/ MinutePasses
  \/ RuntimeRecoveryAged

SpecAged == InitIdle /\ [][NextAged]_vars

\* ---- the agents of one shared workspace and its worktree slots ----

TreeOnly == UNCHANGED <<ghVars, codecVars, storeVars, runnerVars, gitVars, msgVars, sdVars, age, nap, swap>>

CreateWorktreeAny ==
  /\ \E a \in Agents : \E t \in 1..MaxTasks : \E create \in CreateOutcomes :
       CreateWorktreeCall(a, t, create)
  /\ TreeOnly

SubprocessEndsAny ==
  /\ \E a \in Agents : \E cleanup \in BOOLEAN : SubprocessEnds(a, cleanup)
  /\ TreeOnly

CleanupSlotAny ==
  /\ \E a \in Agents : \E t \in 1..MaxTasks : CleanupSlotCall(a, t)
  /\ TreeOnly

StaleCleanupAny ==
  /\ \E a \in Agents : StaleCleanupCall(a)
  /\ TreeOnly

NextTree ==
  \/ CreateWorktreeAny
  \/ SubprocessEndsAny
  \/ CleanupSlotAny
  \/ StaleCleanupAny

SpecTree == InitIdle /\ [][NextTree]_vars

\* ---- the sleeps of one daemon process and the webhooks it receives ----

NapOnly == UNCHANGED <<ghVars, codecVars, storeVars, runnerVars, gitVars, msgVars, sdVars, age, tree, swap>>

SleepAny == Sleep /\ NapOnly

SleepTickAny == SleepTick /\ NapOnly

SleepTimeoutAny ==
  /\ \E s \in 1..MaxSleeps : SleepTimeout(s)
  /\ NapOnly

WebhookAny == Webhook /\ NapOnly

NextNap ==
  \/ SleepAny
  \/ SleepTickAny
  \/ SleepTimeoutAny
  \/ WebhookAny

SpecNap == InitIdle /\ [][NextNap]_vars

\* ---- updateStatus calls racing on one issue ----

SwapOnly == UNCHANGED <<ghVars, codecVars, storeVars, runnerVars, gitVars, msgVars, sdVars, age, tree, nap>>

SwapReadAny ==
  /\ \E c \in Callers : \E status \in SwapStatuses : SwapRead(c, status)
  /\ SwapOnly

SwapPutAny ==
  /\ \E c \in Callers : SwapPut(c)
  /\ SwapOnly

SwapCloseAny ==
  /\ \E c \in Callers : SwapClose(c)
  /\ SwapOnly

NextSwap ==
  \/ SwapReadAny
  \/ SwapPutAny
  \/ SwapCloseAny

SpecSwap == InitIdle /\ [][NextSwap]_vars


(***************************************************************************)
(* Properties                                                              *)
(***************************************************************************)

IsPrefix(s, t) == Len(s) <= Len(t) /\ s = SubSeq(t, 1, Len(s))

StatusLabelsOf(issue) == SelectSeq(issue.labels, LAMBDA l : StartsWith(l, LABEL_STATUS))

\* C1: after an updateStatus(id, s) that returned, the issue carries exactly
\* one label with the status prefix, and it is status:s, whatever number of
\* status labels (none, one, several) the issue carried before.
C1_ExactlyOneStatusLabel ==
  (lastOp.name = "updateStatus" /\ lastOp.ok)
    => StatusLabelsOf(issues[lastOp.id]) = <<StatusLabel(lastOp.arg)>>

\* An updateStatus returned on an issue that carried several status labels.
C1_Witness ==
  /\ lastOp.name = "updateStatus"
  /\ lastOp.ok
  /\ Len(StatusLabelsOf(lastOp.pre)) >= 2

CompleteWrites == <<"comment", "putLabels", "close">>

\* C2: completeTask issues its writes in the order report comment, status
\* label set, close; it issues all three when it returns; and when the
\* comment write fails it issues no other write, so the labels and the
\* open/closed state of the issue are what they were.
C2_CompleteOrder ==
  lastOp.name = "completeTask"
    => /\ IsPrefix(lastOp.writes, CompleteWrites)
       /\ lastOp.ok => lastOp.writes = CompleteWrites
       /\ lastOp.failAt = 1
            => /\ lastOp.writes = <<"comment">>
               /\ issues[lastOp.id].labels = lastOp.pre.labels
               /\ issues[lastOp.id].open = lastOp.pre.open

\* completeTask ended at a failed comment write on an open, assigned task.
C2_Witness ==
  /\ lastOp.name = "completeTask"
  /\ lastOp.failAt = 1
  /\ lastOp.pre.open
  /\ FirstWith(lastOp.pre.labels, LABEL_STATUS, "unknown") = "assigned"

\* C3: when a completeTask call on an open task that is not completed ends,
\* by returning or by a tracker failure at any one call, the task has all of
\* report comment, status completed and closed, or none of them.
C3_NoPartialCompletion ==
  (/\ lastOp.name = "completeTask"
   /\ lastOp.pre.open
   /\ FirstWith(lastOp.pre.labels, LABEL_STATUS, "unknown") # "completed")
    => LET i == issues[lastOp.id]
           hasReport == Len(i.comments) = Len(lastOp.pre.comments) + 1
           completed == FirstWith(i.labels, LABEL_STATUS, "unknown") = "completed"
           closed    == ~i.open
       IN \/ hasReport /\ completed /\ closed
          \/ ~hasReport /\ ~completed /\ ~closed

AllResponses(P(_)) == \A k \in 1..Len(ghResps) : P(ghResps[k])

Is429(r) == r = HttpResp(429)

\* C4: when every response of the tracker is a 429, a request makes exactly
\* MAX_RETRIES attempts and then throws; it makes no further attempt.
C4_RetryBound ==
  AllResponses(Is429)
    => /\ ghFetches = Len(ghResps)
       /\ ghFetches <= MAX_RETRIES
       /\ ghPc # "returned"
       /\ ghPc = "thrown" => ghFetches = MAX_RETRIES /\ ghThrown # NoError
       /\ (ghPc = "loop" /\ ghFetches = MAX_RETRIES)
            => ~ENABLED GhFetch /\ ENABLED GhExhausted

\* A request answered 429 three times has thrown.
C4_Witness ==
  /\ ghPc = "thrown"
  /\ ghResps = <<HttpResp(429), HttpResp(429), HttpResp(429)>>

Is4xx(s) == s >= 400 /\ s <= 499

\* The request ended with response k: it threw that response's status and
\* made no attempt after it.
ThrownAt(k) ==
  /\ k = Len(ghResps)
  /\ ghFetches = k
  /\ ghPc = "thrown"
  /\ ghThrown = HttpError(ghResps[k].status)

\* C5 as stated: a response with a 4xx status other than 403 ends the
\* request at once with a failure that carries the status.
C5_Original ==
  \A k \in 1..Len(ghResps) :
    (ghResps[k].kind = "http" /\ Is4xx(ghResps[k].status) /\ ghResps[k].status # 403)
      => ThrownAt(k)

\* C5, amended: a response with a 4xx status other than 403 and 429 ends
\* the request at once with a failure that carries the status.
C5_ClientErrorNotRetried ==
  \A k \in 1..Len(ghResps) :
    (ghResps[k].kind = "http" /\ Is4xx(ghResps[k].status)
       /\ ~IsRateLimit(ghResps[k].status))
      => ThrownAt(k)

\* A request whose first response is a 404 has thrown it.
C5_Witness ==
  /\ ghPc = "thrown"
  /\ ghResps = <<HttpResp(404)>>
  /\ ghFetches = 1

Transient(r) == r.kind = "network" \/ IsRateLimit(r.status) \/ r.status >= 500

\* C6: after a transient failure (403, 429, 5xx, network error) a further
\* attempt follows while fewer than MAX_RETRIES have been made; a response
\* that is ok ends the request with that response's body returned; a request
\* with nothing but transient failures throws after MAX_RETRIES attempts;
\* no request makes more than MAX_RETRIES attempts.
C6_TransientRetried ==
  /\ ghFetches <= MAX_RETRIES
  /\ ghFetches = Len(ghResps)
  /\ ghResps # <<>>
       => LET n == Len(ghResps)
              last == ghResps[n]
          IN /\ (Transient(last) /\ n < MAX_RETRIES)
                  => ghPc = "loop" /\ ENABLED GhFetch
             /\ (Transient(last) /\ n = MAX_RETRIES)
                  => \/ ghPc = "thrown" /\ ghThrown # NoError
                     \/ ghPc = "loop" /\ ~ENABLED GhFetch /\ ENABLED GhExhausted
             /\ (last.kind = "http" /\ ResOk(last.status))
                  => ghPc = "returned" /\ ghReturned = n
  /\ (ghPc = "thrown" /\ AllResponses(Transient)) => ghFetches = MAX_RETRIES

\* A request answered 429, then 500, then 200 has returned the third body.
C6_Witness ==
  /\ ghPc = "returned"
  /\ ghResps = <<HttpResp(429), HttpResp(500), HttpResp(200)>>
  /\ ghReturned = 3

\* C7: a getTask that returns right after a savePlan that returned, on the
\* same task, gives the plan just saved (goals, affected files, effort and
\* notes, with the defaults savePlan fills in), whatever comments the task
\* carried before.
C7_PlanRoundTrip ==
  (lastOp.name = "getTask" /\ lastOp.ok /\ lastOp.saved # NoPlan)
    => lastOp.result.plan = PlanData(lastOp.saved)

\* The markers of one version and type in a body: an opening followed,
\* somewhere, by a closing.
MarkerStarts(body, ver, type) ==
  {i \in 1..Len(body) : /\ body[i] = OpenLex(ver, type)
                        /\ \E j \in (i + 1)..Len(body) : body[j] = CloseLex}

\* The payload of the first such marker: the text up to the nearest closing.
MarkerPayload(body, ver, type) ==
  LET i == CHOOSE x \in MarkerStarts(body, ver, type) :
             \A y \in MarkerStarts(body, ver, type) : x <= y
      j == CHOOSE x \in (i + 1)..Len(body) :
             body[x] = CloseLex /\ \A y \in (i + 1)..(x - 1) : body[y] # CloseLex
  IN JsonParse(SubSeq(body, i + 1, j - 1))

MarkerParses(body, ver, type) ==
  MarkerStarts(body, ver, type) # {} /\ MarkerPayload(body, ver, type) # ParseThrew

Decoded(body, type, absent) ==
  IF MarkerParses(body, META_VERSION, type) THEN MarkerPayload(body, META_VERSION, type)
  ELSE IF MarkerParses(body, "legacy", type) THEN MarkerPayload(body, "legacy", type)
  ELSE absent

\* C8: parseMetadata returns the payload of the current-version marker (the
\* first one in the body) when it is there and parses, else the payload of
\* the legacy marker when it is there and parses, else null; parseBodyMeta
\* does the same for the type meta, with {} for null; neither throws,
\* malformed payloads included.
C8_VersionFallback ==
  pmPc = "done"
    => /\ pmResult = Decoded(pmBody, pmType, Null)
       /\ pmResult # ParseThrew
       /\ pmBodyMeta = Decoded(pmBody, "meta", EmptyObj)
       /\ pmBodyMeta # ParseThrew

\* A body with a malformed current-version marker and a well-formed legacy
\* one was decoded to the legacy payload.
C8_Witness ==
  /\ pmPc = "done"
  /\ MarkerStarts(pmBody, META_VERSION, pmType) # {}
  /\ ~MarkerParses(pmBody, META_VERSION, pmType)
  /\ MarkerParses(pmBody, "legacy", pmType)
  /\ pmResult = PlanObjA

HasLabels(n, labels) ==
  issues[n].exists /\ issues[n].open /\ labels \subseteq Range(issues[n].labels)

\* C9 as stated: a list with a status filter returns only open tasks that
\* carry the calling agent's label and the requested status label.
C9_Original ==
  (lastOp.name = "getTasks" /\ lastOp.ok /\ lastOp.arg # "")
    => \A t \in lastOp.result :
         HasLabels(t.id, {AgentLabel(AGENT_NAME), StatusLabel(lastOp.arg)})

\* C9, amended: a list with a status filter returns exactly the open tasks
\* that carry the type label and the requested status label, whichever
\* agent they are assigned to; a list with no status filter returns exactly
\* the open tasks that carry the type label and the calling agent's label.
C9_ListByStatus ==
  (lastOp.name = "getTasks" /\ lastOp.ok)
    => LET wanted == IF lastOp.arg # ""
                       THEN {LABEL_TYPE, StatusLabel(lastOp.arg)}
                       ELSE {LABEL_TYPE, AgentLabel(AGENT_NAME)}
       IN /\ \A t \in lastOp.result :
               HasLabels(t.id, wanted) /\ t = extractFromIssue(t.id, issues[t.id])
          /\ \A n \in DOMAIN issues :
               HasLabels(n, wanted) => \E t \in lastOp.result : t.id = n

\* A list with a status filter returned a task of another agent.
C9_Witness ==
  /\ lastOp.name = "getTasks"
  /\ lastOp.ok
  /\ lastOp.arg = "in-progress"
  /\ \E t \in lastOp.result : t.assignee = OtherAgent

\* The retry counter persisted with the task: the retries of its body's
\* metadata, 0 when there is none.
PersistedRetries(issue) ==
  IF "retries" \in DOMAIN parseBodyMeta(issue.body)
    THEN parseBodyMeta(issue.body).retries ELSE 0

\* C10: after a startup recovery in which no tracker request failed, every
\* task that was open, in progress and owned by this agent has status
\* assigned and its retry counter raised by one when the counter was below
\* 3, and status failed when it was 3.
C10_Escalation ==
  (lastOp.name = "recoverStaleTasks" /\ lastOp.ok)
    => \A n \in DOMAIN issues :
         (/\ lastOp.pre[n].exists
          /\ lastOp.pre[n].open
          /\ FirstWith(lastOp.pre[n].labels, LABEL_STATUS, "unknown") = "in-progress"
          /\ FirstWith(lastOp.pre[n].labels, LABEL_AGENT, "") = AGENT_NAME)
           => LET r == PersistedRetries(lastOp.pre[n])
                  now == FirstWith(issues[n].labels, LABEL_STATUS, "unknown")
              IN /\ r < RECOVERY_LIMIT
                      => now = "assigned" /\ PersistedRetries(issues[n]) = r + 1
                 /\ r >= RECOVERY_LIMIT => now = "failed"

\* Every issue's persisted retry counter, as a number.
RetriesInRange ==
  \A n \in DOMAIN issues :
    issues[n].exists => PersistedRetries(issues[n]) \in 0..RECOVERY_LIMIT

\* C11: every task's persisted retry counter is between 0 and 3, and a
\* startup recovery that takes up a task (in progress, owned by this agent,
\* every tracker request succeeding) whose counter is below 3 leaves the
\* counter exactly one higher.
C11_RetryCounter ==
  /\ RetriesInRange
  /\ (lastOp.name = "recoverStaleTasks" /\ lastOp.ok)
       => \A n \in lastOp.result :
            PersistedRetries(lastOp.pre[n]) < RECOVERY_LIMIT
              => PersistedRetries(issues[n]) = PersistedRetries(lastOp.pre[n]) + 1

\* ---- the runner ----

TaskIds == DOMAIN issues

StatusOf(n) == FirstWith(issues[n].labels, LABEL_STATUS, "unknown")

Failed(n) == issues[n].exists /\ StatusOf(n) = "failed"

\* The step just taken is the daemon's own: a recovery, a step of the poll
\* for tasks, the end of a subprocess, or the status update and spawn of an
\* execution that was called from one of `origins`.
OwnStep(origins) ==
  \/ lastOp'.name \in {"recoverStaleTasks", "checkRuntimeStaleTasks", "pollStart",
                       "pollForTasks", "childClose", "childError"}
  \/ lastOp'.name = "handleMessage" /\ "message" \in origins
  \/ lastOp'.name = "spawnClaude" /\ lastOp'.arg \in origins

TakenUp(n) ==
  /\ lastOp.name \in {"recoverStaleTasks", "checkRuntimeStaleTasks"}
  /\ n \in lastOp.result

Dispatched(n) ==
  /\ lastOp.name \in {"pollForTasks", "handleMessage", "executeTask"}
  /\ lastOp.id = n
  /\ lastOp.result = "accepted"

ChangedOutside(n) == lastOp.name = "externalStatus" /\ lastOp.id = n

ExecuteCalled(id) ==
  /\ lastOp'.name \in {"executeTask", "handleMessage", "pollForTasks"}
  /\ lastOp'.id = id

\* C14: a call of execute for a task while another task is executing changes
\* nothing: no subprocess, no status update, and the task is not marked
\* processed.
C14_SingleFlight ==
  [][\A id \in TaskIds :
       (ExecuteCalled(id) /\ currentTask \notin {NoTask, id})
         => /\ UNCHANGED <<issues, alive, spawned, statusSent, currentTask,
                           currentProcess>>
            /\ exec'[id] = exec[id] /\ exec[id].pc = "none"
            /\ (id \in processedTaskIds') = (id \in processedTaskIds)]_vars

\* execute was called for a second, unprocessed task while the first one's
\* subprocess was running
C14_Witness ==
  /\ lastOp.name = "executeTask"
  /\ lastOp.result = "skipped"
  /\ currentTask \notin {NoTask, lastOp.id}
  /\ currentTask \in alive
  /\ lastOp.id \notin processedTaskIds

\* C15: at most one subprocess is outstanding.
C15_OneSubprocess == Cardinality(alive) <= 1

\* a start-task message for another task was handled while a subprocess ran
C15_Witness ==
  /\ Cardinality(alive) = 1
  /\ lastOp.name = "handleMessage"
  /\ lastOp.id \notin alive
  /\ lastOp.ok

\* C16: in one process lifetime no task id has more than one subprocess
\* spawned or more than one status update sent for it, and none without
\* being in the processed set.
C16_AtMostOnce ==
  \A id \in TaskIds :
    /\ spawned[id] <= 1
    /\ statusSent[id] <= 1
    /\ id \notin processedTaskIds => spawned[id] = 0 /\ statusSent[id] = 0

\* execute was called for an id already processed, with the executor idle
C16_Witness ==
  /\ lastOp.name = "executeTask"
  /\ lastOp.result = "skipped"
  /\ lastOp.id \in processedTaskIds
  /\ currentTask = NoTask
  /\ spawned[lastOp.id] = 1


\* ---- merge-back ---------------------------------------------------------

\* handlePostCompletion has called a merge-back for the agent's run.
Invoked(L) == Ran(L, "mergeWorktree") \/ Ran(L, "mergeBranch")

NoMergeNoPush(L) == ~Ran(L, "merge") /\ ~Ran(L, "push")

\* C17 as stated: after the subprocess has exited, a merge-back has been
\* invoked exactly when the exit code is 0; after a nonzero exit code no
\* merge and no push has been run and the worktree is gone.
C17_Original ==
  \A a \in Agents :
    repos[a].closed =>
      /\ Invoked(repos[a]) <=> repos[a].code = 0
      /\ repos[a].code # 0 => NoMergeNoPush(repos[a]) /\ ~repos[a].hasWorktree

\* C17 (amended): after the subprocess has exited, a merge-back has been
\* invoked exactly when the exit code is 0 and the run had a worktree, or
\* had a task branch in a workspace that is still a git repository root;
\* after a nonzero exit code no merge and no push has been run and the
\* worktree is gone.
C17_MergeBackIffZero ==
  \A a \in Agents :
    repos[a].closed =>
      /\ Invoked(repos[a]) <=>
           /\ repos[a].code = 0
           /\ \/ repos[a].strategy = "worktree"
              \/ repos[a].strategy = "branch" /\ repos[a].root
      /\ repos[a].code # 0 => NoMergeNoPush(repos[a]) /\ ~repos[a].hasWorktree

C17_Witness ==
  \E a, b \in Agents :
    /\ repos[a].closed /\ repos[a].code # 0 /\ repos[a].strategy = "worktree"
    /\ Ran(repos[a], "worktreeAdd") /\ ~repos[a].hasWorktree
    /\ repos[b].closed /\ repos[b].code = 0 /\ Invoked(repos[b])


\* The case of C18: the direct merge of the agent's task branch conflicted
\* and so did the rebase tried after it.
DoubleConflict(a) ==
  /\ repos[a].pc = "done"
  /\ repos[a].strategy = "worktree"
  /\ Conflicted(repos[a], "merge")
  /\ Conflicted(repos[a], "rebase")

\* C18: when the direct merge conflicted and the rebase conflicted too, the
\* merge and the rebase have been aborted, the result is a failure with
\* hasConflicts, the worktree and the task branch (with the task's change
\* set, which the default branch has not got) are still there, and the
\* conflict comment has been sent to the task.
C18_DoubleConflict ==
  \A a \in Agents :
    DoubleConflict(a) =>
      /\ Ran(repos[a], "mergeAbort") /\ Ran(repos[a], "rebaseAbort")
      /\ repos[a].result = MergeResult(FALSE, TRUE)
      /\ repos[a].hasWorktree /\ repos[a].hasBranch
      /\ repos[a].branch = {a}
      /\ a \notin repos[a].main
      /\ ~Ran(repos[a], "push")
      /\ repos[a].comment \in {"posted", "failed"}

C18_Witness ==
  \E a \in Agents :
    /\ DoubleConflict(a)
    /\ repos[a].hasWorktree
    /\ repos[a].comment = "posted"


\* C19: after a run in a worktree has exited with code 0 and its post-
\* completion handling is over, the worktree and its branch are gone when
\* the merge-back succeeded and are both still there when it failed, for
\* whatever reason.
C19_PreservedOnFailure ==
  \A a \in Agents :
    (/\ repos[a].pc = "done"
     /\ repos[a].strategy = "worktree"
     /\ repos[a].closed
     /\ repos[a].code = 0) =>
      IF repos[a].result.success
      THEN ~repos[a].hasWorktree /\ ~repos[a].hasBranch
      ELSE repos[a].hasWorktree /\ repos[a].hasBranch


\* The agent's run committed its change set in a worktree, exited with code
\* 0, and its merge-back is over without a failure of the network or of git
\* itself.
MergedBack(a) ==
  /\ repos[a].pc = "done"
  /\ repos[a].strategy = "worktree"
  /\ repos[a].closed /\ repos[a].code = 0
  /\ a \in repos[a].branch
  /\ ~repos[a].env

\* C20: when the merge-backs of the two agents' task branches are both over
\* and the two change sets do not truly conflict (a rebase of one onto the
\* other goes through), both have succeeded and the remote's default branch
\* contains both change sets, however the two calls' pulls and pushes fell
\* in time.
C20_PushRace ==
  ((\A a \in Agents : MergedBack(a)) /\ conflictLevel # "true") =>
    /\ \A a \in Agents : repos[a].result.success
    /\ Agents \subseteq remote


\* ---- worktree cleanup and creation --------------------------------------

\* What cleanupWorktree is there to remove, and the branches' contents.
Slot(a) ==
  <<repos[a].hasWorktree, repos[a].hasBranch, repos[a].main,
    repos[a].tracking, repos[a].branch>>

\* C21: no call of cleanupWorktree raises an error, and a call that comes
\* after an earlier one and finds neither the worktree nor the task branch
\* leaves the repository as it found it.
C21_CleanupIdempotent ==
  [][\A a \in Agents :
       repos'[a].cleanups = repos[a].cleanups + 1 =>
         /\ ~repos'[a].threw
         /\ (/\ repos[a].cleanups >= 1
             /\ ~repos[a].hasWorktree
             /\ ~repos[a].hasBranch) => Slot(a)' = Slot(a)]_vars

C21_Witness ==
  \E a \in Agents :
    /\ Ran(repos[a], "worktreeAdd")
    /\ repos[a].cleanups = 2
    /\ ~repos[a].hasWorktree /\ ~repos[a].hasBranch
    /\ ~repos[a].threw


\* C22: createWorktree never throws, and after it has returned null the run
\* has no worktree and no branch strategy (the subprocess runs in the shared
\* workspace) and no merge-back follows the exit.
C22_CreateFailsSoft ==
  \A a \in Agents :
    /\ repos[a].created # "threw"
    /\ repos[a].created = "null" =>
         /\ repos[a].strategy = "none"
         /\ ~repos[a].hasWorktree
         /\ ~Invoked(repos[a])


\* ---- failures leave a comment -------------------------------------------

\* C23, for the failure by exit code: the step in which executeTask learns
\* that the task's subprocess has exited with a nonzero code, and ends,
\* puts a comment on the task's record.
C23_FailureCommented ==
  [][\A n \in 1..MaxIssues :
       (/\ exec[n].pc = "running"
        /\ exec'[n].pc = "none"
        /\ lastOp'.name = "childClose"
        /\ lastOp'.result # 0) =>
         Len(issues'[n].comments) > Len(issues[n].comments)]_vars


\* ---- message delivery ---------------------------------------------------

\* A later fetch will still return the message: it is newer than the
\* timestamp the next fetch sends, or it is in the batch being handled, or
\* newer than the timestamp of the fetch in flight.
StillToCome(m) ==
  \/ inbox[m].created_at > lastMessageTimestamp
  \/ \E i \in 1..Len(mloop.batch) : mloop.batch[i] = m
  \/ mloop.pc = "fetch" /\ inbox[m].created_at > mloop.since

\* C24: a message to this agent is handed to handleMessage at most once in
\* a lifetime of the daemon, and at least once: while it has not been
\* handed over in any lifetime, a later fetch will still return it.
C24_Delivery ==
  \A m \in 1..MaxMessages :
    (inbox[m].sent /\ inbox[m].to = AGENT_NAME) =>
      /\ delivered[m] <= 1
      /\ m \in everDelivered \/ StillToCome(m)


\* ---- shutdown -----------------------------------------------------------

\* C25: a signal that arrives after shutdown has begun changes nothing: no
\* signal goes to a subprocess, no grace wait starts, the running wait's
\* elapsed time is kept, main is where it was and the process has not
\* exited by it.
C25_ShutdownIdempotent ==
  [][(handler'.signals > handler.signals /\ shuttingDown) =>
       /\ sub' = sub
       /\ mainLoop' = mainLoop
       /\ shuttingDown'
       /\ handler' = [handler EXCEPT !.signals = @ + 1]]_vars

\* A second signal has arrived during the grace wait for a subprocess.
C25_Witness ==
  /\ handler.signals >= 2
  /\ handler.pc = "grace"
  /\ handler.graceWaits = 1
  /\ handler.elapsed > 0
  /\ sub.currentProcess # 0
  /\ sub.children[sub.currentProcess].signals = <<"SIGTERM">>

\* C26: between the signal and the exit no poll cycle starts and no
\* subprocess is spawned; the subprocess active at the signal gets SIGTERM,
\* and a subprocess still there when the grace period of GRACE_MS ends gets
\* SIGKILL.
C26_NoNewWork ==
  [][/\ (shuttingDown /\ ~Exited) =>
          /\ mainLoop'.cycles = mainLoop.cycles
          /\ Len(sub'.children) = Len(sub.children)
     /\ (~shuttingDown /\ shuttingDown' /\ sub.currentProcess # 0) =>
          sub'.children[sub.currentProcess].signals = <<"SIGTERM">>
     /\ (handler.pc = "grace" /\ handler'.pc = "exited" /\ sub.currentProcess # 0) =>
          /\ handler'.elapsed = GRACE_MS
          /\ "SIGKILL" = sub'.children[sub.currentProcess].signals[
                           Len(sub'.children[sub.currentProcess].signals)]]_vars


\* ---- the status swap as seen by a reader ----------------------------------

\* The issue as the tracker shows it after the first k requests of an
\* updateStatus(status) that started on `issue`.
SeenAfter(issue, status, k) ==
  RunSteps(UpdateStatusSteps(status), k, issue, [status |-> status])

\* C27: an updateStatus on an issue with exactly one status label writes
\* the labels with at most one request, a PUT of the full set, and after
\* each of its requests, completed or not, the tracker shows the issue with
\* exactly one status label.
C27_OneLabelSetWrite ==
  [][(lastOp'.name = "updateStatus" /\ Len(StatusLabelsOf(lastOp'.pre)) = 1) =>
       /\ Len(SelectSeq(lastOp'.writes, LAMBDA w : w # "close")) <= 1
       /\ \A w \in Range(lastOp'.writes) : w \in {"putLabels", "close"}
       /\ \A k \in 0..Len(UpdateStatusSteps(lastOp'.arg)) :
            Len(StatusLabelsOf(SeenAfter(lastOp'.pre, lastOp'.arg, k))) = 1
       /\ Len(StatusLabelsOf(issues'[lastOp'.id])) = 1]_vars

\* An updateStatus has replaced the one status label of an issue by another.
C27_Witness ==
  /\ lastOp.name = "updateStatus"
  /\ lastOp.ok
  /\ Len(StatusLabelsOf(lastOp.pre)) = 1
  /\ StatusLabelsOf(lastOp.pre) # StatusLabelsOf(issues[lastOp.id])


\* ---- the grace window of startup recovery -------------------------------

\* The task startup recovery sees for issue n is inside the grace window or
\* has no known update time.
NotKnownStale(task) ==
  "updatedAt" \notin DOMAIN task \/ task.updatedAt < TWO_MINUTES

\* C28: a startup recovery takes up as stale no task that was updated less
\* than 2 minutes ago and no task whose update time is unknown, and it
\* leaves the issue of such a task as it was.
C28_GraceWindow ==
  lastOp.name = "recoverStaleTasks"
    => \A n \in DOMAIN issues :
         (lastOp.pre[n].exists /\ NotKnownStale(extractFromIssue(n, lastOp.pre[n])))
           => n \notin lastOp.result /\ issues[n] = lastOp.pre[n]


\* ---- runtime recovery -----------------------------------------------------

\* Issue n is an open task in progress, owned by this agent, that nothing
\* has changed for 5 minutes.
RuntimeStale(n) ==
  /\ issues[n].exists
  /\ issues[n].open
  /\ FirstWith(issues[n].labels, LABEL_STATUS, "unknown") = "in-progress"
  /\ FirstWith(issues[n].labels, LABEL_AGENT, "") = AGENT_NAME
  /\ age[n] >= FIVE_MINUTES

\* C29: a runtime recovery whose requests all succeed sets every task that
\* is in progress, owned by this agent and at least 5 minutes without update
\* to assigned, adds one comment to it and keeps its retry counter; it
\* leaves every other issue as it was.
C29_RuntimeReset ==
  [][(lastOp'.name = "checkRuntimeStaleTasks" /\ lastOp'.ok) =>
       \A n \in DOMAIN issues :
         IF RuntimeStale(n)
           THEN /\ FirstWith(issues'[n].labels, LABEL_STATUS, "unknown") = "assigned"
                /\ Len(issues'[n].comments) = Len(issues[n].comments) + 1
                /\ PersistedRetries(issues'[n]) = PersistedRetries(issues[n])
           ELSE issues'[n] = issues[n]]_vars


\* ---- the push retry of merge-back -------------------------------------------

\* The places of the pushes in the log of a run.
PushAt(L) == {i \in 1..Len(L.log) : L.log[i] = "push"}

\* Two pushes with no push between them.
NextPushes(L, i, j) ==
  /\ i \in PushAt(L)
  /\ j \in PushAt(L)
  /\ i < j
  /\ \A k \in PushAt(L) : ~(i < k /\ k < j)

\* The call has returned a failure that is not a merge failure: its last
\* push was rejected.
PushGaveUp(L) ==
  /\ ~L.result.none
  /\ PushAt(L) # {}
  /\ ~L.result.success
  /\ ~L.result.hasConflicts

\* C30: a merge-back call pushes at most 3 times; between two pushes it
\* resets the main workspace hard, pulls and merges the task branch again;
\* and it gives up on the push only after 3 rejected pushes, whether the
\* merge was direct or a rebase with a fast-forward merge.
C30_PushRetry ==
  \A a \in Agents :
    LET L == repos[a]
    IN /\ Cardinality(PushAt(L)) <= MAX_PUSH_RETRIES
       /\ \A i, j \in 1..Len(L.log) :
            NextPushes(L, i, j) =>
              SubSeq(L.log, i + 1, j - 1) = <<"resetHard", "pull", "merge">>
       /\ PushGaveUp(L) => Cardinality(PushAt(L)) = MAX_PUSH_RETRIES


\* ---- the stash of merge-back ---------------------------------------------

StashPops(L) == Len(SelectSeq(L.log, LAMBDA op : op = "stashPop"))

\* C31: a mergeWorktree call that stashed the main workspace's uncommitted
\* changes has popped the stash exactly once when it returns, whatever the
\* return path; it pops nothing before it returns, and nothing at all when
\* nothing was stashed.
C31_StashRestored ==
  \A a \in Agents :
    LET L == repos[a]
    IN Ran(L, "mergeWorktree") =>
         StashPops(L) = IF ~L.result.none /\ L.didStash THEN 1 ELSE 0

\* A call that stashed has returned after its pushes were all rejected.
C31_Witness ==
  \E a \in Agents :
    /\ repos[a].didStash
    /\ PushGaveUp(repos[a])
    /\ Cardinality(PushAt(repos[a])) = MAX_PUSH_RETRIES
    /\ StashPops(repos[a]) = 1


\* ---- the worktree slot of an agent -----------------------------------------

\* C32: after a createWorktree for an agent and a task that succeeded, the
\* agent's slot holds the worktree of that task, and no branch of another
\* task of that agent is left in the workspace.
C32_OneSlot ==
  (tree.last.op = "createWorktree" /\ tree.last.ok) =>
    /\ tree.worktrees[tree.last.agent] = tree.last.task
    /\ \A t \in 1..MaxTasks :
         <<t, tree.last.agent>> \in tree.branches => t = tree.last.task


\* ---- the order inside a poll cycle ------------------------------------------

\* C33: while a poll cycle is at its fetch of the assigned tasks, or in an
\* executeTask that the task poll has called, no message fetched in that
\* cycle is still to be handled.
C33_MessagesFirst ==
  (mainLoop.pc = "tasks" \/ mainLoop.caller = "poll") => mainLoop.pending = 0

\* The first cycle has reached its task fetch after a start-task message
\* of the cycle ran a subprocess.
C33_Witness ==
  /\ mainLoop.pc = "tasks"
  /\ mainLoop.cycles = 1
  /\ Len(sub.children) >= 1


\* ---- the last-seen timestamp -------------------------------------------------

\* C34: no step of a running daemon lowers lastMessageTimestamp, in
\* whatever order of created_at the messages of a batch are handled.
C34_TimestampMonotone ==
  [][mloop.pc # "down" => lastMessageTimestamp' >= lastMessageTimestamp]_vars

\* Two messages of one batch have been handled, the newer one first.
C34_Witness ==
  \E m1, m2 \in 1..MaxMessages :
    /\ m1 < m2
    /\ delivered[m1] = 1
    /\ delivered[m2] = 1
    /\ inbox[m2].created_at > mloop.since
    /\ inbox[m1].created_at > inbox[m2].created_at
    /\ lastMessageTimestamp = inbox[m1].created_at


\* ---- the webhook and the sleep ------------------------------------------------

\* C35: a webhook that arrives while main is in its sleep ends that sleep
\* in the same step, for every sleep of the process.
C35_WebhookWakes ==
  [][(nap'.webhooks > nap.webhooks /\ nap.sleeping # 0) => nap'.sleeping = 0]_vars


\* ---- stale-worktree cleanup on a shared workspace -----------------------------

\* C36: a stale-worktree cleanup leaves the worktree of every agent whose
\* subprocess is running in it where it is.
C36_LiveWorktreeKept ==
  [][tree'.last.op = "cleanStaleWorktrees" =>
       \A b \in tree.live : tree'.worktrees[b] = tree.worktrees[b]]_vars


\* ---- racing status updates ------------------------------------------------------

\* C37: under every interleaving of the reads and writes of concurrent
\* updateStatus calls on an issue that starts with one status label, the
\* issue carries exactly one status label in every state, and once a write
\* has landed it is the label of the write that landed last.
C37_RacingSwaps ==
  /\ Len(StatusLabelsOf(swap)) = 1
  /\ swap.puts >= 1 => StatusLabelsOf(swap) = <<StatusLabel(swap.lastPut)>>

\* Three calls with different statuses have all read the issue before any
\* of them wrote, and all have written.
C37_Witness ==
  /\ \A c \in Callers :
       /\ swap.calls[c].pc = "done"
       /\ swap.calls[c].seen = InitSwap.labels
  /\ \A c, d \in Callers : c # d => swap.calls[c].status # swap.calls[d].status


\* ---- what success means -----------------------------------------------------

\* C38: a mergeWorktree call that has returned success has merged the task
\* branch into the default branch and pushed it: the branch is contained in
\* the local default branch, which the remote has taken; and the result
\* does not report conflicts.
C38_SuccessMeansPushed ==
  \A a \in Agents :
    LET L == repos[a]
    IN (Ran(L, "mergeWorktree") /\ ~L.result.none /\ L.result.success) =>
         /\ ~L.result.hasConflicts
         /\ Ran(L, "merge")
         /\ Ran(L, "push")
         /\ L.branch \subseteq L.main
         /\ L.main \subseteq remote

\* A call has returned success through the rebase, with the task's change
\* set and another agent's on the remote.
C38_Witness ==
  \E a \in Agents :
    /\ repos[a].result.success
    /\ Ran(repos[a], "rebase")
    /\ a \in remote
    /\ remote # {a}


\* ---- the single-flight marker ------------------------------------------------

\* C39: after a runClaude call has ended (the child has closed, the spawn has
\* failed, or the setup before the spawn has failed) busy is false, so that
\* no later call is refused because of a run that is over.
C39_MarkerReleased ==
  \A a \in Agents :
    repos[a].pc \in {"done", "errored", "rejected"} => ~repos[a].busy


\* ---- the counter before the status -------------------------------------------

\* C40: a startup recovery that takes up a task whose retry counter is below
\* 3 and does not leave the counter one higher leaves the task's issue as it
\* was: its status is not reset and no comment is added.  So no task is set
\* back to assigned by a recovery that has not incremented its counter.
C40_CounterFirst ==
  lastOp.name = "recoverStaleTasks"
    => \A n \in lastOp.result :
         (/\ PersistedRetries(lastOp.pre[n]) < RECOVERY_LIMIT
          /\ PersistedRetries(issues[n]) # PersistedRetries(lastOp.pre[n]) + 1)
           => issues[n] = lastOp.pre[n]

\* A recovery has taken up a stale task with a counter below 3, persisting
\* the counter has failed, and the task is in progress and has no comment
\* more than before.
C40_Witness ==
  /\ lastOp.name = "recoverStaleTasks"
  /\ \E n \in lastOp.result :
       /\ PersistedRetries(lastOp.pre[n]) < RECOVERY_LIMIT
       /\ PersistedRetries(issues[n]) = PersistedRetries(lastOp.pre[n])
       /\ FirstWith(issues[n].labels, LABEL_STATUS, "unknown") = "in-progress"
       /\ issues[n].comments = lastOp.pre[n].comments

====
